---- MODULE Spec2Model ----
(***************************************************************************)
(* Multi-tenant retrieval chatbot (BOT/app_20.py) with its lead-capture    *)
(* conversation, and the scheduler supervisor that refreshes its data      *)
(* (UPDATER/run_tenant_scheduler.py, UPDATER/run_tenant_updater.py).       *)
(*                                                                         *)
(* Text is modelled as a tuple of one-character strings, so that the       *)
(* validators, the contact extractor and the keyword tests are computed on *)
(* the characters as the Python code computes them.                        *)
(***************************************************************************)
EXTENDS Integers, Sequences, FiniteSets, TLC

(***************************************************************************)
(* Characters and elementary string operations                             *)
(***************************************************************************)
LowerSeq == <<"a", "b", "c", "d", "e", "f", "g", "h", "i", "j", "k", "l", "m", "n", "o", "p", "q", "r", "s", "t", "u", "v", "w", "x", "y", "z">>

UpperSeq == <<"A", "B", "C", "D", "E", "F", "G", "H", "I", "J", "K", "L", "M", "N", "O", "P", "Q", "R", "S", "T", "U", "V", "W", "X", "Y", "Z">>

Range(f) == {f[i] : i \in DOMAIN f}

Lower == Range(LowerSeq)

Upper == Range(UpperSeq)

Alpha == Lower \cup Upper

Digit == {"0", "1", "2", "3", "4", "5", "6", "7", "8", "9"}

AlNum == Alpha \cup Digit

Space == {" "}

WordChar == AlNum \cup {"_"}

Punct == {" ", "+", "-", ".", "(", ")", "@", "_", "%", ":", "'", ",", ";", "!", "?", "/", "[", "]", "{", "}", "\""}

\* every character a modelled text can contain (no text holds a newline)
Alphabet == AlNum \cup Punct

Max(S) == CHOOSE x \in S : \A y \in S : y <= x

Min(S) == CHOOSE x \in S : \A y \in S : x <= y

\* str.lower() on one character
LowerChar(c) == IF c \in Upper THEN LowerSeq[CHOOSE i \in 1..26 : UpperSeq[i] = c] ELSE c

\* str.lower()
ToLower(s) == [i \in 1..Len(s) |-> LowerChar(s[i])]

\* str.strip(): removes leading and trailing whitespace
Strip(s) ==
  LET keep == {i \in 1..Len(s) : s[i] \notin Space}
  IN IF keep = {} THEN << >> ELSE SubSeq(s, Min(keep), Max(keep))

\* str.strip(chars): removes leading and trailing characters of the set
StripChars(s, chars) ==
  LET keep == {i \in 1..Len(s) : s[i] \notin chars}
  IN IF keep = {} THEN << >> ELSE SubSeq(s, Min(keep), Max(keep))

\* the text with the characters of a set removed (re.sub(class, '', s))
RemoveChars(s, chars) == SelectSeq(s, LAMBDA c : c \notin chars)

\* the number of characters of s that lie in a set
CountIn(s, chars) == Cardinality({i \in 1..Len(s) : s[i] \in chars})

\* sub at position j of s
OccursAt(sub, s, j) == /\ j + Len(sub) - 1 <= Len(s)
                       /\ \A k \in 1..Len(sub) : s[j + k - 1] = sub[k]

\* Python's `sub in s`
Contains(s, sub) == \E j \in 1..(Len(s) + 1) : OccursAt(sub, s, j)

\* str.split(): the whitespace-separated words of s
Words(s) ==
  LET starts == {i \in 1..Len(s) : s[i] \notin Space /\ (i = 1 \/ s[i - 1] \in Space)}
      endOf(i) == Min({j \in i..Len(s) : j = Len(s) \/ s[j + 1] \in Space})
  IN {SubSeq(s, i, endOf(i)) : i \in starts}

\* str.split('@'): the pieces of s around each occurrence of the character c
RECURSIVE SplitOn(_, _)
SplitOn(s, c) ==
  LET at == {i \in 1..Len(s) : s[i] = c}
  IN IF at = {} THEN <<s>>
     ELSE <<SubSeq(s, 1, Min(at) - 1)>> \o SplitOn(SubSeq(s, Min(at) + 1, Len(s)), c)

\* '/'.join(comps)
RECURSIVE JoinSlash(_)
JoinSlash(comps) ==
  IF comps = << >> THEN << >>
  ELSE IF Len(comps) = 1 THEN comps[1]
  ELSE comps[1] \o <<"/">> \o JoinSlash(Tail(comps))

\* the loop of posixpath.normpath over the components from the i-th on
RECURSIVE NormComps(_, _, _, _)
NormComps(comps, i, new_comps, rooted) ==
  IF i > Len(comps) THEN new_comps
  ELSE IF comps[i] \in {<< >>, <<".">>} THEN NormComps(comps, i + 1, new_comps, rooted)
  ELSE IF \/ comps[i] # <<".", ".">>
          \/ ~rooted /\ new_comps = << >>
          \/ new_comps # << >> /\ new_comps[Len(new_comps)] = <<".", ".">>
    THEN NormComps(comps, i + 1, Append(new_comps, comps[i]), rooted)
  ELSE IF new_comps # << >>
    THEN NormComps(comps, i + 1, SubSeq(new_comps, 1, Len(new_comps) - 1), rooted)
  ELSE NormComps(comps, i + 1, new_comps, rooted)

\* posixpath.normpath
normpath(path) ==
  LET initial_slashes ==
        IF ~OccursAt(<<"/">>, path, 1) THEN 0
        ELSE IF OccursAt(<<"/", "/">>, path, 1) /\ ~OccursAt(<<"/", "/", "/">>, path, 1) THEN 2
        ELSE 1
      rooted(joined) == [i \in 1..initial_slashes |-> "/"] \o joined
      named(result) == IF result = << >> THEN <<".">> ELSE result
  IN IF path = << >> THEN <<".">>
     ELSE named(rooted(JoinSlash(NormComps(SplitOn(path, "/"), 1, << >>, initial_slashes > 0))))

\* the working directory of the bot process
Cwd == <<"/", "d", "a", "t", "a">>

\* os.path.abspath: posixpath.join(os.getcwd(), path) unless the path is
\* absolute, then normpath
abspath(path) ==
  IF OccursAt(<<"/">>, path, 1) THEN normpath(path)
  ELSE IF Cwd[Len(Cwd)] = "/" THEN normpath(Cwd \o path)
  ELSE normpath(Cwd \o <<"/">> \o path)

(***************************************************************************)
(* Regular expressions of the validators and of the extractor.  A pattern  *)
(* is a sequence of items: a character class with a repetition range       *)
(* (greedy), an alternation of literals, a word boundary or the end anchor.*)
(* MatchPath is the backtracking match of Python's re: the earlier item    *)
(* takes as many characters as lets the rest of the pattern match.         *)
(***************************************************************************)
Cls(chars, lo, hi) == [t |-> "cls", chars |-> chars, lo |-> lo, hi |-> hi, alts |-> << >>]

Alt(alts) == [t |-> "alt", chars |-> {}, lo |-> 0, hi |-> 0, alts |-> alts]

WordBoundary == [t |-> "wb", chars |-> {}, lo |-> 0, hi |-> 0, alts |-> << >>]

EndAnchor == [t |-> "end", chars |-> {}, lo |-> 0, hi |-> 0, alts |-> << >>]

\* the repetition bound of * and + (no modelled text is longer)
Unbounded == 64

NoMatch == <<0>>

IsMatch(path) == path = << >> \/ path[1] # 0

\* \b: a word character on exactly one side of position j
AtWordBoundary(s, j) ==
  LET before == j > 1 /\ s[j - 1] \in WordChar
      after == j <= Len(s) /\ s[j] \in WordChar
  IN before # after

\* the number of characters from position j on that lie in chars, at most hi
RunLength(s, j, chars, hi) ==
  LET stops == {k \in 0..hi : j + k > Len(s) \/ s[j + k] \notin chars}
  IN IF stops = {} THEN hi ELSE Min(stops)

\* The positions at which items i.. of the pattern end when matched from
\* position j of s (ignoreCase: re.IGNORECASE), NoMatch when they do not match.
RECURSIVE MatchPath(_, _, _, _, _)
MatchPath(pat, i, s, j, ignoreCase) ==
  IF i > Len(pat) THEN << >>
  ELSE
    LET it == pat[i]
        rest(k) == MatchPath(pat, i + 1, s, k, ignoreCase)
        text == IF ignoreCase THEN ToLower(s) ELSE s
    IN CASE it.t = "cls" ->
              LET run == RunLength(s, j, it.chars, it.hi)
                  ks == {k \in it.lo..run : IsMatch(rest(j + k))}
              IN IF ks = {} THEN NoMatch ELSE <<j + Max(ks)>> \o rest(j + Max(ks))
         [] it.t = "alt" ->
              LET ok == {a \in 1..Len(it.alts) :
                            OccursAt(it.alts[a], text, j) /\ IsMatch(rest(j + Len(it.alts[a])))}
              IN IF ok = {} THEN NoMatch
                 ELSE <<j + Len(it.alts[Min(ok)])>> \o rest(j + Len(it.alts[Min(ok)]))
         [] it.t = "wb" ->
              IF AtWordBoundary(s, j) /\ IsMatch(rest(j)) THEN <<j>> \o rest(j) ELSE NoMatch
         [] OTHER ->
              IF j = Len(s) + 1 /\ IsMatch(rest(j)) THEN <<j>> \o rest(j) ELSE NoMatch

\* re.match(pattern, s) with an anchored pattern
ReMatch(pat, s) == IsMatch(MatchPath(pat, 1, s, 1, FALSE))

\* re.findall(pattern, s, re.IGNORECASE): the matches from left to right, not
\* overlapping; from item `group` on when the pattern has a capturing group
\* (group = 1: the whole match)
RECURSIVE FindAll(_, _, _, _)
FindAll(pat, group, s, pos) ==
  IF pos > Len(s) THEN << >>
  ELSE
    LET found(path) ==
          IF ~IsMatch(path) \/ path = << >> THEN FindAll(pat, group, s, pos + 1)
          ELSE LET stop == path[Len(path)]
                   start == IF group = 1 THEN pos ELSE path[group - 1]
               IN <<SubSeq(s, start, stop - 1)>>
                    \o FindAll(pat, group, s, IF stop > pos THEN stop ELSE pos + 1)
    IN found(MatchPath(pat, 1, s, pos, TRUE))

(***************************************************************************)
(* LeadValidator: each validator returns (is_valid, error_message)         *)
(***************************************************************************)
Accepted == [ok |-> TRUE, reason |-> ""]

Rejected(why) == [ok |-> FALSE, reason |-> why]

NameChars == Alpha \cup {" ", "'", "-", "."}

validate_name(input) ==
  LET name == Strip(input)
  IN IF input = << >> THEN Rejected("Name cannot be empty.")
     ELSE IF Len(name) < 2 THEN Rejected("Name must be at least 2 characters long.")
     ELSE IF Len(name) > 100 THEN Rejected("Name is too long (maximum 100 characters).")
     ELSE IF CountIn(name, Alpha) = 0 THEN Rejected("Name must contain at least one letter.")
     ELSE IF 10 * CountIn(name, Digit) > 3 * Len(name)
       THEN Rejected("Name contains too many numbers. Please provide a valid name.")
     ELSE IF \E i \in 1..Len(name) : name[i] \notin NameChars
       THEN Rejected("Name contains invalid character.")
     ELSE IF CountIn(name, {"'", "-", "."}) > Len(name) \div 2
       THEN Rejected("Name contains too many special characters.")
     ELSE Accepted

\* ^[a-zA-Z0-9][a-zA-Z0-9._%+-]*@[a-zA-Z0-9][a-zA-Z0-9.-]*\.[a-zA-Z]{2,}$
email_pattern ==
  << Cls(AlNum, 1, 1), Cls(AlNum \cup {".", "_", "%", "+", "-"}, 0, Unbounded), Cls({"@"}, 1, 1),
     Cls(AlNum, 1, 1), Cls(AlNum \cup {".", "-"}, 0, Unbounded), Cls({"."}, 1, 1),
     Cls(Alpha, 2, Unbounded), EndAnchor >>

validate_email(input) ==
  LET checked(email) ==
     LET parts == SplitOn(email, "@")
         local_part == parts[1]
         domain_part == parts[2]
     IN
     IF input = << >> THEN Rejected("Email cannot be empty.")
     ELSE IF Len(email) < 5 THEN Rejected("Email is too short.")
     ELSE IF Len(email) > 254 THEN Rejected("Email is too long (maximum 254 characters).")
     ELSE IF ~ReMatch(email_pattern, email) THEN Rejected("Invalid email format.")
     ELSE IF CountIn(email, {"@"}) # 1 THEN Rejected("Email must contain exactly one @ symbol.")
     ELSE IF local_part = << >> \/ Len(local_part) > 64
       THEN Rejected("Invalid email format (local part issue).")
     ELSE IF local_part[1] = "." \/ local_part[Len(local_part)] = "."
       THEN Rejected("Email cannot start or end with a period.")
     ELSE IF Contains(local_part, <<".", ".">>)
       THEN Rejected("Email cannot contain consecutive periods.")
     ELSE IF domain_part = << >> \/ Len(domain_part) < 3 THEN Rejected("Invalid email domain.")
     ELSE IF domain_part[1] \in {".", "-"} \/ domain_part[Len(domain_part)] \in {".", "-"}
       THEN Rejected("Invalid email domain format.")
     ELSE IF Contains(domain_part, <<".", ".">>)
       THEN Rejected("Email domain cannot contain consecutive periods.")
     ELSE IF ~Contains(domain_part, <<".">>)
       THEN Rejected("Email domain must contain at least one period.")
     ELSE Accepted
  IN checked(ToLower(Strip(input)))

Sep == {"-", ".", " "}

\* the six anchored shapes accepted by validate_phone
phone_patterns ==
  << \* ^\+?1?\s*\(?[0-9]{3}\)?\s*[-.\s]?[0-9]{3}[-.\s]?[0-9]{4}$
     << Cls({"+"}, 0, 1), Cls({"1"}, 0, 1), Cls(Space, 0, Unbounded), Cls({"("}, 0, 1),
        Cls(Digit, 3, 3), Cls({")"}, 0, 1), Cls(Space, 0, Unbounded), Cls(Sep, 0, 1),
        Cls(Digit, 3, 3), Cls(Sep, 0, 1), Cls(Digit, 4, 4), EndAnchor >>,
     \* ^\+?[0-9]{1,4}\s*\(?[0-9]{2,4}\)?\s*[-.\s]?[0-9]{3,4}[-.\s]?[0-9]{3,4}$
     << Cls({"+"}, 0, 1), Cls(Digit, 1, 4), Cls(Space, 0, Unbounded), Cls({"("}, 0, 1),
        Cls(Digit, 2, 4), Cls({")"}, 0, 1), Cls(Space, 0, Unbounded), Cls(Sep, 0, 1),
        Cls(Digit, 3, 4), Cls(Sep, 0, 1), Cls(Digit, 3, 4), EndAnchor >>,
     \* ^[0-9]{10}$
     << Cls(Digit, 10, 10), EndAnchor >>,
     \* ^[0-9]{3}[-.\s][0-9]{3}[-.\s][0-9]{4}$
     << Cls(Digit, 3, 3), Cls(Sep, 1, 1), Cls(Digit, 3, 3), Cls(Sep, 1, 1), Cls(Digit, 4, 4),
        EndAnchor >>,
     \* ^\([0-9]{3}\)\s*[0-9]{3}[-.\s]?[0-9]{4}$
     << Cls({"("}, 1, 1), Cls(Digit, 3, 3), Cls({")"}, 1, 1), Cls(Space, 0, Unbounded),
        Cls(Digit, 3, 3), Cls(Sep, 0, 1), Cls(Digit, 4, 4), EndAnchor >>,
     \* ^\+[0-9]{1,3}\s*[0-9]{9,12}$
     << Cls({"+"}, 1, 1), Cls(Digit, 1, 3), Cls(Space, 0, Unbounded), Cls(Digit, 9, 12),
        EndAnchor >> >>

validate_phone(input) ==
  LET phone == Strip(input)
  IN IF input = << >> THEN Rejected("Phone number cannot be empty.")
     ELSE IF Len(phone) < 7 THEN Rejected("Phone number is too short (minimum 7 characters).")
     ELSE IF Len(phone) > 20 THEN Rejected("Phone number is too long (maximum 20 characters).")
     ELSE IF ~\E p \in 1..Len(phone_patterns) : ReMatch(phone_patterns[p], phone)
       THEN Rejected("Invalid phone number format.")
     ELSE IF CountIn(phone, Digit) < 10
       THEN Rejected("Phone number must contain at least 10 digits.")
     ELSE Accepted

(***************************************************************************)
(* ContactInformationExtractor                                             *)
(***************************************************************************)
EmailLocal == AlNum \cup {".", "_", "%", "+", "-"}

EmailDomain == AlNum \cup {".", "-"}

\* the email patterns, each with the item at which its capturing group starts
email_patterns ==
  << \* \b[a-zA-Z0-9._%+-]+@[a-zA-Z0-9.-]+\.[a-zA-Z]{2,}\b
     [group |-> 1, pat |->
        << WordBoundary, Cls(EmailLocal, 1, Unbounded), Cls({"@"}, 1, 1),
           Cls(EmailDomain, 1, Unbounded), Cls({"."}, 1, 1), Cls(Alpha, 2, Unbounded),
           WordBoundary >>],
     \* \b[a-zA-Z0-9._%-]+\s*@\s*[a-zA-Z0-9.-]+\s*\.\s*[a-zA-Z]{2,}\b
     [group |-> 1, pat |->
        << WordBoundary, Cls(AlNum \cup {".", "_", "%", "-"}, 1, Unbounded),
           Cls(Space, 0, Unbounded), Cls({"@"}, 1, 1), Cls(Space, 0, Unbounded),
           Cls(EmailDomain, 1, Unbounded), Cls(Space, 0, Unbounded), Cls({"."}, 1, 1),
           Cls(Space, 0, Unbounded), Cls(Alpha, 2, Unbounded), WordBoundary >>],
     \* \b[a-zA-Z0-9]+[._-]*[a-zA-Z0-9]*@[a-zA-Z0-9]+[.-]*[a-zA-Z0-9]*\.[a-zA-Z]{2,}\b
     [group |-> 1, pat |->
        << WordBoundary, Cls(AlNum, 1, Unbounded), Cls({".", "_", "-"}, 0, Unbounded),
           Cls(AlNum, 0, Unbounded), Cls({"@"}, 1, 1), Cls(AlNum, 1, Unbounded),
           Cls({".", "-"}, 0, Unbounded), Cls(AlNum, 0, Unbounded), Cls({"."}, 1, 1),
           Cls(Alpha, 2, Unbounded), WordBoundary >>],
     \* [a-zA-Z0-9._%+-]+@[a-zA-Z0-9.-]+\.[a-zA-Z]{2,}
     [group |-> 1, pat |->
        << Cls(EmailLocal, 1, Unbounded), Cls({"@"}, 1, 1), Cls(EmailDomain, 1, Unbounded),
           Cls({"."}, 1, 1), Cls(Alpha, 2, Unbounded) >>],
     \* (?i)(?:email|mail|e-mail)\s*:?\s*([a-zA-Z0-9._%+-]+@[a-zA-Z0-9.-]+\.[a-zA-Z]{2,})
     [group |-> 5, pat |->
        << Alt(<< <<"e", "m", "a", "i", "l">>, <<"m", "a", "i", "l">>,
                  <<"e", "-", "m", "a", "i", "l">> >>),
           Cls(Space, 0, Unbounded), Cls({":"}, 0, 1), Cls(Space, 0, Unbounded),
           Cls(EmailLocal, 1, Unbounded), Cls({"@"}, 1, 1), Cls(EmailDomain, 1, Unbounded),
           Cls({"."}, 1, 1), Cls(Alpha, 2, Unbounded) >>] >>

\* the phone patterns of the extractor
extractor_phone_patterns ==
  << \* \+?1?[-.\s]?\(?[0-9]{3}\)?[-.\s]?[0-9]{3}[-.\s]?[0-9]{4}
     [group |-> 1, pat |->
        << Cls({"+"}, 0, 1), Cls({"1"}, 0, 1), Cls(Sep, 0, 1), Cls({"("}, 0, 1),
           Cls(Digit, 3, 3), Cls({")"}, 0, 1), Cls(Sep, 0, 1), Cls(Digit, 3, 3),
           Cls(Sep, 0, 1), Cls(Digit, 4, 4) >>],
     \* \+?[0-9]{1,4}[-.\s]?\(?[0-9]{3,4}\)?[-.\s]?[0-9]{3,4}[-.\s]?[0-9]{4,5}
     [group |-> 1, pat |->
        << Cls({"+"}, 0, 1), Cls(Digit, 1, 4), Cls(Sep, 0, 1), Cls({"("}, 0, 1),
           Cls(Digit, 3, 4), Cls({")"}, 0, 1), Cls(Sep, 0, 1), Cls(Digit, 3, 4),
           Cls(Sep, 0, 1), Cls(Digit, 4, 5) >>],
     \* \b(?:phone|tel|mobile|cell|contact)\s*:?\s*[\+]?[^\n]{7,60}\b
     [group |-> 1, pat |->
        << WordBoundary,
           Alt(<< <<"p", "h", "o", "n", "e">>, <<"t", "e", "l">>,
                  <<"m", "o", "b", "i", "l", "e">>, <<"c", "e", "l", "l">>,
                  <<"c", "o", "n", "t", "a", "c", "t">> >>),
           Cls(Space, 0, Unbounded), Cls({":"}, 0, 1), Cls(Space, 0, Unbounded),
           Cls({"+"}, 0, 1), Cls(Alphabet, 7, 60), WordBoundary >>],
     \* \b[0-9]{3}[-.\s][0-9]{3}[-.\s][0-9]{4}\b
     [group |-> 1, pat |->
        << WordBoundary, Cls(Digit, 3, 3), Cls(Sep, 1, 1), Cls(Digit, 3, 3), Cls(Sep, 1, 1),
           Cls(Digit, 4, 4), WordBoundary >>],
     \* \([0-9]{3}\)\s*[0-9]{3}[-.\s]?[0-9]{4}
     [group |-> 1, pat |->
        << Cls({"("}, 1, 1), Cls(Digit, 3, 3), Cls({")"}, 1, 1), Cls(Space, 0, Unbounded),
           Cls(Digit, 3, 3), Cls(Sep, 0, 1), Cls(Digit, 4, 4) >>],
     \* (?i)(?:phone|tel|mobile|call)\s*:?\s*([\+]?[0-9\s\-\(\)\.]{7,20})
     [group |-> 5, pat |->
        << Alt(<< <<"p", "h", "o", "n", "e">>, <<"t", "e", "l">>,
                  <<"m", "o", "b", "i", "l", "e">>, <<"c", "a", "l", "l">> >>),
           Cls(Space, 0, Unbounded), Cls({":"}, 0, 1), Cls(Space, 0, Unbounded),
           Cls({"+"}, 0, 1), Cls(Digit \cup {" ", "-", "(", ")", "."}, 7, 20) >>] >>

\* the matches of every pattern of a list in the text
AllMatches(patterns, text) ==
  UNION {Range(FindAll(patterns[p].pat, patterns[p].group, text, 1)) : p \in 1..Len(patterns)}

\* the cleaned form under which extract_emails keeps a match
CleanEmail(match) ==
  StripChars(RemoveChars(ToLower(match), Space),
             {".", ",", ";", ":", "!", "?", "(", ")", "[", "]", "{", "}", "\"", "'"})

\* extract_emails: the set of the emails found (the code returns list(set))
extract_emails(text) ==
  LET keeps(email) ==
        LET parts == SplitOn(email, "@")
        IN /\ Len(parts) >= 2
           /\ Contains(parts[2], <<".">>)
           /\ Len(email) > 5
           /\ Len(parts) = 2
           /\ Len(parts[1]) > 0
           /\ Len(parts[2]) > 2
  IN {e \in {CleanEmail(m) : m \in AllMatches(email_patterns, text)} : keeps(e)}

\* extract_phones: the set of the phones found (the code returns list(set))
extract_phones(text) ==
  {Strip(m) : m \in {x \in AllMatches(extractor_phone_patterns, text) :
                        Len(RemoveChars(x, Alphabet \ (Digit \cup {"+"}))) >= 10}}

\* extract_contact_info
extract_contact_info(text) ==
  LET found(emails, phones) ==
        [has_contact |-> emails # {} \/ phones # {}, emails |-> emails, phones |-> phones]
  IN IF Strip(text) = << >>
       THEN [has_contact |-> FALSE, emails |-> {}, phones |-> {}]
       ELSE found(extract_emails(text), extract_phones(text))

(***************************************************************************)
(* Tenants, sessions, questions and the documents of the vector stores     *)
(***************************************************************************)
NoText == << >>

\* the directories of two vector stores and the URI of the record store
AcmePath == <<"/", "d", "a", "t", "a", "/", "a", "c", "m", "e">>

BetaPath == <<"/", "d", "a", "t", "a", "/", "b", "e", "t", "a">>

LeadsUri == <<"m", "o", "n", "g", "o", "d", "b", ":", "/", "/", "d", "b", "/", "l", "e", "a", "d", "s">>

\* a tenant context: (resource_id, vector_store_path, database_uri)
TenantA == [resource_id |-> "acme", vector_store_path |-> AcmePath, database_uri |-> LeadsUri]

\* a second tenant, with its own vector store, on the same record store
TenantB == [resource_id |-> "beta", vector_store_path |-> BetaPath, database_uri |-> LeadsUri]

\* a third tenant, registered with the vector store and record store of the first
TenantC == [resource_id |-> "gamma", vector_store_path |-> AcmePath, database_uri |-> LeadsUri]

Tenants == {TenantA, TenantB, TenantC}

Paths == {t.vector_store_path : t \in Tenants}

Uris == {t.database_uri : t \in Tenants}

\* other spellings of the directory of the first vector store: with a
\* trailing slash, and relative to the working directory
AcmeSlashPath == AcmePath \o <<"/">>

AcmeRelativePath == <<"a", "c", "m", "e">>

\* the vector_store_path values that requests carry
RawPaths == Paths \cup {AcmeSlashPath, AcmeRelativePath}

\* str.strip() on each path and URI a request carries, computed once
Stripped == [x \in RawPaths \cup Uris |-> Strip(x)] @@ << >>

\* the directory on disk each of them names (chromadb.PersistentClient(path)
\* and os.path.abspath resolve against the working directory), computed once
DiskPath == [p \in RawPaths |-> abspath(p)] @@ << >>


Sessions == {"s1", "s2"}

QName == <<"A", "l">>

QPhone == <<"4", "1", "5", "5", "5", "5", "2", "6", "7", "1">>

QTelPhone == <<"t", "e", "l", " ", "4", "1", "5", "5", "5", "5", "2", "6", "7", "1">>

QEmail == <<"a", "@", "b", ".", "c", "o">>

QCost == <<"c", "o", "s", "t", "?">>

QUrl == <<"u", "r", "l", "?">>

\* the chat messages a client sends
Questions == {QName, QPhone, QTelPhone, QEmail, QCost, QUrl}

\* the chunks stored in the vector collection of a path: text and metadata
AboutChunk == [text |-> <<"o", "u", "r", " ", "s", "t", "o", "r", "y">>,
               url |-> <<"/", "a", "b", "o", "u", "t">>, page_title |-> <<"A", "b", "o", "u", "t">>]

BlogChunk == [text |-> <<"n", "e", "w", "s">>,
              url |-> <<"/", "b", "l", "o", "g">>, page_title |-> <<"B", "l", "o", "g">>]

InitialVectorStore == [p \in Paths |-> IF p = AcmePath THEN {AboutChunk, BlogChunk} ELSE {}]

\* every text the validators and the extractor are applied to: the messages
\* and the phones and emails the extractor finds in them
Texts == Questions \cup UNION {extract_emails(q) \cup extract_phones(q) : q \in Questions}

\* LeadValidator.validate_name, validate_phone, validate_email and
\* ContactInformationExtractor.extract_contact_info on each text, computed once
NameVerdict == [x \in Texts |-> validate_name(x)] @@ << >>

PhoneVerdict == [x \in Texts |-> validate_phone(x)] @@ << >>

EmailVerdict == [x \in Texts |-> validate_email(x)] @@ << >>

ContactInfo == [x \in Texts |-> extract_contact_info(x)] @@ << >>

(***************************************************************************)
(* State                                                                   *)
(***************************************************************************)
VARIABLES
  instances,      \* TenantChatbotManager._instances: cache key -> engine
  needs_reload,   \* TenantChatbotManager._needs_reload: the cache keys flagged dirty
  vector_store,   \* the vector collection on disk of each vector_store_path
  leads,          \* the `leads` collection of each record store, in insertion order
  reply,          \* the last chat request: whose it was, its answer, and whether
                  \* it called the record store and the store answered
  restarts,       \* the number of process restarts so far
  sched_pc,       \* where the scheduler supervisor is in _run_updater_job
  tick,           \* the number of updater jobs started
  returncode,     \* the return code of the updater subprocess of each job
  restart_log,    \* the /system/restart requests issued: job and whether acknowledged
  admin_log,      \* the scrape-complete notifications posted to the admin backend
  supervisor,     \* run_tenant_scheduler.main: where it is, _shutdown_requested,
                  \* the PID file, the JSON lines printed and the exit code
  bot,            \* the bot process under run_bot_with_autorestart: where it is, its
                  \* last exit code and what made it exit
  lock,           \* TenantChatbotManager._lock: "free" or the call that holds it
  served,         \* the last call on the registry: the request and what it returned
  refreshing,     \* the /refresh-cache requests between their invalidate and their get
  site,           \* the crawled site: the page now served at each URL
  url_tracking,   \* the url_tracking collection: the tracking record of each URL
  crawl,          \* the update run: its number, its request queue and dupefilter,
                  \* the spider's processed URLs, the clock, and the cleaned text
                  \* each URL showed in the run before and in this one
  added,          \* the documents the update runs have added to the vector
                  \* collection, counted per URL
  parsed,         \* the last call of ContentChangeDetectorSpider.parse and what it did
  item,           \* the item in ChunkingPipeline: its sentences and its chunks
  manual,         \* what add_manual_knowledge made of the same text
  retrieval,      \* the multi-pass retrieval of the last message chat answered from
                  \* the collection: the passes, the candidates, the reranked documents
  located,        \* the location fast-path of chat: the chunks its query returned
                  \* and the reply it gave
  spider,         \* FixedUniversalSpider in one crawl: its settings, the requests
                  \* the scheduler holds, the dupefilter, the sets of URLs it is
                  \* processing and has fully processed, its last link discovery
  chroma,         \* the documents the ChromaDB pipeline has added to the vector
                  \* collection in the update runs: URL, text and timestamp
  sources         \* _store_source_snippets: the documents of a retrieval answer
                  \* and the snippets stored for the session

chatVars == <<instances, needs_reload, vector_store, leads, reply, restarts>>

schedVars == <<sched_pc, tick, returncode, restart_log, admin_log, supervisor>>

hostVars == <<bot>>

registryVars == <<lock, served, refreshing>>

crawlVars == <<site, url_tracking, crawl, added, parsed, chroma>>

chunkVars == <<item, manual>>

\* the scraping side: the update run and the chunking pipeline
spiderVars == <<spider>>

pipelineVars == <<crawlVars, chunkVars, spiderVars>>

ragVars == <<retrieval, located, sources>>

\* what the chat handler and the scheduler supervisor never touch
apartVars == <<hostVars, registryVars, pipelineVars, ragVars>>

vars == <<instances, needs_reload, vector_store, leads, reply, restarts,
          sched_pc, tick, returncode, restart_log, admin_log, supervisor,
          bot, lock, served, refreshing,
          site, url_tracking, crawl, added, parsed, chroma, spider, item, manual,
          retrieval, located, sources>>

(***************************************************************************)
(* The `leads` collection: a sequence of lead documents                    *)
(***************************************************************************)
NameCollectionText == <<"N", "a", "m", "e", " ", "c", "o", "l", "l", "e", "c", "t", "i", "o", "n">>

LeadDocument(sid, name, phone, email, question, source, status) ==
  [session_id |-> sid, name |-> name, phone |-> phone, email |-> email,
   original_question |-> question, source |-> source, status |-> status]

\* find_one({"session_id": sid}): the position of the first such document, 0 if none
find_one(coll, sid) ==
  LET hits == {i \in 1..Len(coll) : coll[i].session_id = sid}
  IN IF hits = {} THEN 0 ELSE Min(hits)

\* the unique index chatbot_session_idx on session_id rejects the document
DuplicateKey(coll, doc) == \E i \in 1..Len(coll) : coll[i].session_id = doc.session_id

\* insert_one on a collection without the unique index
insert_one_unindexed(coll, doc) == [raised |-> FALSE, coll |-> Append(coll, doc)]

\* insert_one under the unique index: raised is TRUE on DuplicateKeyError
insert_one(coll, doc) ==
  IF DuplicateKey(coll, doc) THEN [raised |-> TRUE, coll |-> coll]
  ELSE [raised |-> FALSE, coll |-> Append(coll, doc)]

\* the phone update without the filter on the status
update_any_with_phone(coll, sid, phone, question) ==
  LET hits == {i \in 1..Len(coll) : coll[i].session_id = sid}
  IN IF hits = {} THEN coll
     ELSE [coll EXCEPT ![Min(hits)] =
             [@ EXCEPT !.phone = phone, !.original_question = question,
                       !.status = "phone_collected"]]

\* update_one({"session_id": sid, "status": "partial"}, {"$set": phone, question, status})
update_partial_with_phone(coll, sid, phone, question) ==
  LET hits == {i \in 1..Len(coll) : coll[i].session_id = sid /\ coll[i].status = "partial"}
  IN IF hits = {} THEN coll
     ELSE [coll EXCEPT ![Min(hits)] =
             [@ EXCEPT !.phone = phone, !.original_question = question,
                       !.status = "phone_collected"]]

\* update_one({"session_id": sid}, {"$set": email, question, status: complete})
update_with_email(coll, sid, email, question) ==
  IF find_one(coll, sid) = 0 THEN coll
  ELSE [coll EXCEPT ![find_one(coll, sid)] =
          [@ EXCEPT !.email = email, !.original_question = question, !.status = "complete"]]

(***************************************************************************)
(* SemanticIntelligentRAG: the per-tenant engine and its session state     *)
(***************************************************************************)
\* an answer of chat: which of its messages, the validator's reason it carries, and
\* the text of the answers that are computed
Reply(kind) == [kind |-> kind, reason |-> "", body |-> NoText]

RejectReply(kind, why) == [kind |-> kind, reason |-> why, body |-> NoText]

\* a Python dict without keys
EmptyMap == [x \in {} |-> NoText]

\* dict.pop(key, None)
Without(map, key) == [x \in DOMAIN map \ {key} |-> map[x]]

\* a conversation context in which no key has been set
EmptyContext ==
  [username |-> NoText, phone |-> NoText, email |-> NoText, lead_collected |-> FALSE,
   original_pricing_question |-> NoText, last_question |-> NoText]

\* `if session_id not in self.conversation_contexts: ...[session_id] = {}`
EnsureContext(contexts, s) ==
  IF s \in DOMAIN contexts THEN contexts ELSE contexts @@ (s :> EmptyContext)

\* self.conversation_contexts.get(session_id, {})
ContextOf(eng, s) ==
  IF s \in DOMAIN eng.conversation_contexts THEN eng.conversation_contexts[s] ELSE EmptyContext

\* SemanticIntelligentRAG.__init__: a fresh engine; mongoUp is whether
\* init_mongodb_connection succeeded (leads_collection is None otherwise)
NewEngine(tenant, mongoUp) ==
  [resource_id |-> tenant.resource_id,
   vector_store_path |-> tenant.vector_store_path,
   mongo_uri |-> tenant.database_uri,
   leads_collection |-> mongoUp,
   name_collection_states |-> EmptyMap,
   conversation_contexts |-> EmptyMap,
   lead_collection_states |-> EmptyMap,
   last_sources_by_session |-> EmptyMap,
   collection |-> "initial",
   embedding_model |-> "all-MiniLM-L6-v2",
   reranker |-> "cross-encoder/ms-marco-MiniLM-L-6-v2"]

\* a reload that builds the engine anew around the fresh collection
reload_vector_store_rebuilding(eng, reloadOk) ==
  [eng EXCEPT !.collection = IF reloadOk THEN "reloaded" ELSE "none",
              !.name_collection_states = EmptyMap,
              !.conversation_contexts = EmptyMap,
              !.lead_collection_states = EmptyMap,
              !.last_sources_by_session = EmptyMap]

\* reload_vector_store: the old client is closed, chroma_client and
\* collection are set to None, and a fresh client and collection are opened;
\* when that raises (reloadOk is FALSE) the collection stays None
reload_vector_store(eng, reloadOk) ==
  [eng EXCEPT !.collection = IF reloadOk THEN "reloaded" ELSE "none"]

\* what a step of chat hands back: the engine, its leads collection, the
\* answer, and whether a call to the record store was made and answered
Outcome(eng, ld, response) ==
  [eng |-> eng, ld |-> ld, response |-> response, stored |-> FALSE, raised |-> {}]

Stored(outcome, answered) == [outcome EXCEPT !.stored = answered]

\* the steps of the call that raised an exception: "record_store",
\* "vector_store", "embedding", "reranker", "session_entry" (a KeyError)
Raised(outcome, step, did) ==
  [outcome EXCEPT !.raised = IF did THEN @ \cup {step} ELSE @]

\* The insert of the name-only lead, in its try/except
SaveNameOnlyLead(eng, ld, s, name, dbOk) ==
  IF eng.leads_collection /\ dbOk
    THEN insert_one(ld, LeadDocument(s, name, NoText, NoText, NameCollectionText,
                                     "name_collection", "partial")).coll
    ELSE ld

\* a name gate that forgets the session on a rejected name
process_name_collection_forgetful(eng, ld, s, user_input, dbOk) ==
  LET name == Strip(user_input)
      named == [eng EXCEPT
                  !.conversation_contexts =
                     [EnsureContext(@, s) EXCEPT ![s].username = name],
                  !.name_collection_states =
                     [@ EXCEPT ![s] = [waiting_for_name |-> FALSE, name_collected |-> TRUE]]]
      validated(v) ==
        IF ~v.ok
          THEN Outcome([eng EXCEPT !.name_collection_states = Without(@, s)], ld,
                       RejectReply("name_rejected", v.reason))
          ELSE Raised(Stored(Outcome(named, SaveNameOnlyLead(eng, ld, s, name, dbOk),
                                     Reply("greeting")),
                             eng.leads_collection /\ dbOk),
                      "record_store", eng.leads_collection /\ ~dbOk)
  IN IF s \notin DOMAIN eng.name_collection_states
       THEN Outcome(eng, ld, Reply("name_not_initialized"))
       ELSE validated(NameVerdict[name])

process_name_collection(eng, ld, s, user_input, dbOk) ==
  LET name == Strip(user_input)
      named == [eng EXCEPT
                  !.conversation_contexts =
                     [EnsureContext(@, s) EXCEPT ![s].username = name],
                  !.name_collection_states =
                     [@ EXCEPT ![s] = [waiting_for_name |-> FALSE, name_collected |-> TRUE]]]
      validated(v) ==
        IF ~v.ok
          THEN Outcome(eng, ld, RejectReply("name_rejected", v.reason))
          ELSE Raised(Stored(Outcome(named, SaveNameOnlyLead(eng, ld, s, name, dbOk),
                                     Reply("greeting")),
                             eng.leads_collection /\ dbOk),
                      "record_store", eng.leads_collection /\ ~dbOk)
  IN IF s \notin DOMAIN eng.name_collection_states
       THEN Outcome(eng, ld, Reply("name_not_initialized"))
       ELSE validated(NameVerdict[name])

get_user_name(eng, s) == ContextOf(eng, s).username

\* a name gate that never asks
should_never_ask_for_name(eng, s) == FALSE

should_ask_for_name(eng, s) ==
  IF ContextOf(eng, s).username # NoText THEN FALSE
  ELSE IF s \in DOMAIN eng.name_collection_states
            /\ (eng.name_collection_states[s].name_collected
                \/ eng.name_collection_states[s].waiting_for_name)
    THEN FALSE
  ELSE TRUE

start_lead_collection(eng, s, original_question) ==
  [eng EXCEPT !.lead_collection_states =
     [x \in DOMAIN @ \cup {s} |->
        IF x = s
          THEN [original_question |-> original_question, current_step |-> "phone",
                name |-> get_user_name(eng, s), phone |-> NoText, email |-> NoText]
          ELSE @[x]]]

get_lead_collection_request(eng, s) ==
  IF s \in DOMAIN eng.lead_collection_states
    THEN IF eng.lead_collection_states[s].current_step = "phone" THEN Reply("phone_request")
         ELSE IF eng.lead_collection_states[s].current_step = "email" THEN Reply("email_request")
         ELSE Reply("name_request")
    ELSE Reply("lead_not_initialized")

\* self.conversation_contexts[session_id]['lead_collected'] = True, after EnsureContext
SetLeadCollected(eng, s) ==
  [eng EXCEPT !.conversation_contexts = [EnsureContext(@, s) EXCEPT ![s].lead_collected = TRUE]]

\* del self.lead_collection_states[session_id]
DropLeadState(eng, s) ==
  [eng EXCEPT !.lead_collection_states = Without(@, s)]

\* The persistence at the email step when the store answers: update the
\* session's record, else insert a complete one
PersistCompleteLead(ld, s, state) ==
  IF find_one(ld, s) # 0
    THEN [ld EXCEPT ![find_one(ld, s)] =
            [@ EXCEPT !.phone = state.phone, !.email = state.email,
                      !.original_question = state.original_question, !.status = "complete"]]
    ELSE insert_one(ld, LeadDocument(s, state.name, state.phone, state.email,
                                     state.original_question, "pricing_inquiry", "complete")).coll

process_lead_data_step_by_step(eng, ld, s, response, dbOk) ==
  IF s \notin DOMAIN eng.lead_collection_states
    THEN Outcome(eng, ld, Reply("lead_not_initialized"))
  ELSE
    LET state == eng.lead_collection_states[s]
        input == Strip(response)
        with(newState) == [eng EXCEPT !.lead_collection_states[s] = newState]
        \* `if not is_valid: return error_msg`, else the step goes on
        validated(v, accepted) ==
          IF ~v.ok THEN Outcome(eng, ld, RejectReply("lead_rejected", v.reason)) ELSE accepted
        filled == [state EXCEPT !.email = input]
    IN CASE state.current_step = "name" ->
              validated(NameVerdict[input],
                        Outcome(with([state EXCEPT !.name = input, !.current_step = "phone"]),
                                ld, Reply("ask_phone")))
         [] state.current_step = "phone" ->
              validated(PhoneVerdict[input],
                        Outcome(with([state EXCEPT !.phone = input, !.current_step = "email"]),
                                ld, Reply("ask_email")))
         [] state.current_step = "email" ->
              validated(EmailVerdict[input],
                        IF ~eng.leads_collection
                          THEN Outcome(SetLeadCollected(DropLeadState(eng, s), s), ld,
                                       Reply("thank_you_generic"))
                        ELSE IF dbOk
                          THEN Stored(Outcome(DropLeadState(SetLeadCollected(eng, s), s),
                                              PersistCompleteLead(ld, s, filled),
                                              Reply("thank_you_saved")), TRUE)
                        ELSE \* except Exception: the flag is set, the state is kept
                             Raised(Outcome(SetLeadCollected(with(filled), s), ld,
                                            Reply("thank_you_generic")),
                                    "record_store", TRUE))
         [] OTHER -> Outcome(eng, ld, Reply("try_again"))

detect_pricing_inquiry(question) ==
  \E keyword \in {<<"p", "r", "i", "c", "e">>, <<"c", "o", "s", "t">>,
                  <<"p", "r", "i", "c", "i", "n", "g">>, <<"q", "u", "o", "t", "e">>,
                  <<"r", "a", "t", "e", "s">>, <<"h", "o", "w", " ", "m", "u", "c", "h">>} :
     Contains(ToLower(question), keyword)

LocationTriggers ==
  {<<"w", "h", "e", "r", "e", " ", "i", "s", " ", "t", "h", "i", "s">>,
   <<"w", "h", "i", "c", "h", " ", "p", "a", "g", "e">>,
   <<"s", "o", "u", "r", "c", "e">>, <<"l", "i", "n", "k">>, <<"u", "r", "l">>,
   <<"w", "h", "e", "r", "e", " ", "d", "i", "d", " ", "y", "o", "u", " ", "g", "e", "t", " ", "t", "h", "i", "s">>,
   <<"a", "b", "o", "u", "t", " ", "p", "a", "g", "e">>,
   <<"w", "h", "e", "r", "e", " ", "c", "a", "n", " ", "i", " ", "f", "i", "n", "d">>,
   <<"w", "h", "a", "t", " ", "p", "a", "g", "e">>,
   <<"p", "a", "g", "e", " ", "l", "o", "c", "a", "t", "e", "d">>}

is_location_query(question) ==
  /\ question # NoText
  /\ \/ \E t \in LocationTriggers : Contains(ToLower(question), t)
     \/ \E w \in {<<"s", "o", "u", "r", "c", "e">>, <<"l", "i", "n", "k">>, <<"u", "r", "l">>} :
          w \in Words(ToLower(question))

\* detect_pricing_inquiry and is_location_query on each text, computed once
PricingVerdict == [x \in Texts |-> detect_pricing_inquiry(x)] @@ << >>

LocationVerdict == [x \in Texts |-> is_location_query(x)] @@ << >>

(***************************************************************************)
(* The location fast-path of chat: the URL-level rerank                    *)
(***************************************************************************)
\* the characters in the order of their code points
AsciiOrder ==
  <<" ", "!", "\"", "%", "'", "(", ")", "+", ",", "-", ".", "/">> \o
  <<"0", "1", "2", "3", "4", "5", "6", "7", "8", "9", ":", ";", "?", "@">> \o UpperSeq \o
  <<"[", "]", "_">> \o LowerSeq \o <<"{", "}">>

CodeOf(c) == CHOOSE i \in 1..Len(AsciiOrder) : AsciiOrder[i] = c

\* Python's a < b on strings
LexLess(a, b) ==
  \E k \in 1..(Len(b)) :
     /\ \A i \in 1..(k - 1) : i <= Len(a) /\ a[i] = b[i]
     /\ \/ k = Len(a) + 1
        \/ k <= Len(a) /\ CodeOf(a[k]) < CodeOf(b[k])

PositiveTerms ==
  {<<"a", "b", "o", "u", "t">>, <<"w", "h", "o", " ", "w", "e", " ", "a", "r", "e">>,
   <<"c", "o", "m", "p", "a", "n", "y">>, <<"o", "u", "r", " ", "s", "t", "o", "r", "y">>,
   <<"m", "i", "s", "s", "i", "o", "n">>}

NegativePaths == {<<"/", "b", "l", "o", "g">>, <<"/", "c", "a", "t", "e", "g", "o", "r", "y">>, <<"/", "t", "a", "g">>}

\* what one chunk adds to the score of its URL
ChunkScore(chunk) ==
  LET check_text == ToLower(chunk.text) \o <<" ">> \o ToLower(chunk.page_title)
  IN 2 * Cardinality({term \in PositiveTerms : Contains(check_text, term)})
     - 5 * Cardinality({path \in NegativePaths : Contains(ToLower(chunk.url), path)})

\* the scores of the chunks of a list, added up
RECURSIVE SumScores(_)
SumScores(results) ==
  IF results = << >> THEN 0 ELSE ChunkScore(Head(results)) + SumScores(Tail(results))

\* url_scores[url]['score'] over the chunks the query returned, in their order
UrlScore(results, url) == SumScores(SelectSeq(results, LAMBDA c : Strip(c.url) = url))

\* the keys of url_scores: `if not url: continue`, then url.strip()
CandidateUrls(results) ==
  {Strip(results[i].url) : i \in {k \in DOMAIN results : results[k].url # NoText}}

\* the best URL when ties go to the greatest URL string
BestUrlLast(results) ==
  CHOOSE u \in CandidateUrls(results) : \A w \in CandidateUrls(results) \ {u} :
     \/ UrlScore(results, u) > UrlScore(results, w)
     \/ UrlScore(results, u) = UrlScore(results, w) /\ LexLess(w, u)

\* sorted(url_scores.items(), key=lambda kv: (-kv[1]['score'], kv[0]))[0]
BestUrl(results) ==
  CHOOSE u \in CandidateUrls(results) : \A w \in CandidateUrls(results) \ {u} :
     \/ UrlScore(results, u) > UrlScore(results, w)
     \/ UrlScore(results, u) = UrlScore(results, w) /\ LexLess(u, w)

\* the title kept for a URL: the page title of the first chunk of the URL, else the URL
TitleOf(results, url) ==
  LET first == results[Min({i \in DOMAIN results :
                              results[i].url # NoText /\ Strip(results[i].url) = url})]
  IN IF first.page_title # NoText THEN first.page_title ELSE url

\* f"{title}\n{url}"
LocationReply(results) ==
  [kind |-> "location", reason |-> "",
   body |-> TitleOf(results, BestUrl(results)) \o <<"\n">> \o BestUrl(results)]

\* chat, lines 1364-1425: the reply of the fast-path over the chunks the
\* query returned, or none when no chunk has a URL and dispatch goes on
location_fast_path(results) ==
  IF CandidateUrls(results) # {} THEN LocationReply(results) ELSE Reply("none")

\* the orders in which a query can return the chunks of a collection
Rankings(docs) ==
  {r \in [1..Cardinality(docs) -> docs] : \A i, j \in DOMAIN r : r[i] = r[j] => i = j}

\* the fast-path answer over each content of a vector collection in each
\* order, computed once
LocationAnswer ==
  [r \in UNION {Rankings(cs) : cs \in SUBSET UNION {InitialVectorStore[p] : p \in Paths}} |->
     location_fast_path(r)] @@ << >>

(***************************************************************************)
(* chat: the dispatch of one message of a session                          *)
(***************************************************************************)
\* What the surroundings of one chat call do: whether the record store
\* answers (db), whether the vector query of the fast-path answers (vec),
\* where the retrieval raises (fault), which element of the extractor's
\* list(set) comes first (first_phone, first_email), and the order in which
\* the vector query and the reranker return the chunks (ranking).
Faults == {"none", "embedding", "reranker"}

\* _store_source_snippets: at most `limit` snippets of at most `max_length` characters
SnippetLimit == 5

SnippetMaxLength == 240

Snippet(doc) ==
  IF Len(Strip(doc)) > SnippetMaxLength
    THEN Strip(SubSeq(Strip(doc), 1, SnippetMaxLength)) \o <<".", ".", ".">>
    ELSE Strip(doc)

\* the documents a retrieval answer hands to _store_source_snippets: none,
\* a short one, one of 241 characters whose 240th is a blank, and one of 300
ShortDoc == <<" ", "o", "p", "e", "n", " ">>

SpacedDoc == [i \in 1..241 |-> IF i = 240 THEN " " ELSE "a"]

LongDoc == [i \in 1..300 |-> "a"]

Docs == {NoText, ShortDoc, SpacedDoc, LongDoc}

\* the snippet of each of them, computed once
SnippetOf == [d \in Docs |-> Snippet(d)]

store_source_snippets(eng, s, documents) ==
  LET kept == SelectSeq(documents, LAMBDA d : d # NoText)
      n == IF Len(kept) < SnippetLimit THEN Len(kept) ELSE SnippetLimit
      snippet(d) == IF d \in Docs THEN SnippetOf[d] ELSE Snippet(d)
  IN [eng EXCEPT !.last_sources_by_session =
        Without(@, s) @@ (s :> [i \in 1..n |-> snippet(kept[i])])]

\* chat, lines 1446-1518: a phone or an email found in the question itself.
\* handled is FALSE when the question holds no contact and dispatch goes on.
InlineContact(eng, ld, s, question, env) ==
  LET original_pricing_q ==
        IF ContextOf(eng, s).original_pricing_question # NoText
          THEN ContextOf(eng, s).original_pricing_question ELSE question
      stored == eng.leads_collection /\ env.db
      done(e, l, r) == [handled |-> TRUE, eng |-> e, ld |-> l, response |-> r,
                        stored |-> stored /\ r.kind # "inline_rejected",
                        raised |->
                          (IF eng.leads_collection /\ ~env.db /\ r.kind # "inline_rejected"
                             THEN {"record_store"} ELSE {})
                            \cup (IF r.kind = "apology" THEN {"session_entry"} ELSE {})]
      \* `if not is_valid: return error_msg`, else the branch goes on
      validated(v, accepted) ==
        IF ~v.ok THEN done(eng, ld, RejectReply("inline_rejected", v.reason)) ELSE accepted
      with_email ==
        IF stored THEN update_with_email(ld, s, env.first_email, original_pricing_q) ELSE ld
      extracted(info) ==
        IF ~info.has_contact
          THEN [handled |-> FALSE, eng |-> eng, ld |-> ld, response |-> Reply("none"),
                stored |-> FALSE, raised |-> {}]
        ELSE IF info.phones # {}
          THEN validated(PhoneVerdict[env.first_phone],
                         done([eng EXCEPT !.conversation_contexts =
                                 [EnsureContext(@, s) EXCEPT ![s].phone = env.first_phone]],
                              IF stored
                                THEN update_partial_with_phone(ld, s, env.first_phone,
                                                               original_pricing_q)
                                ELSE ld,
                              Reply("inline_phone_saved")))
        ELSE validated(EmailVerdict[env.first_email],
                       IF s \notin DOMAIN eng.conversation_contexts
                         THEN \* KeyError at conversation_contexts[session_id]
                              \* ['lead_collected'], after the update
                              done(eng, with_email, Reply("apology"))
                         ELSE done([eng EXCEPT
                                      !.conversation_contexts[s].lead_collected = TRUE,
                                      !.conversation_contexts[s].email = env.first_email],
                                   with_email, Reply("inline_email_saved")))
  IN extracted(ContactInfo[question])

\* pricing intent, retrieval and synthesis outside chat's try: the reranker's
\* exception reaches the caller
PricingAndRetrievalUncaught(eng, ld, s, question, chunks, env) ==
  LET reranked == [i \in DOMAIN env.ranking |-> env.ranking[i].text]
      answered(noted) ==
        [store_source_snippets(noted, s, reranked) EXCEPT
           !.conversation_contexts =
              [EnsureContext(@, s) EXCEPT ![s].last_question = question]]
      asked(started) == Outcome(started, ld, get_lead_collection_request(started, s))
      retrieved(pricing, noted) ==
        IF env.fault = "embedding"
          THEN Raised(Outcome(eng, ld, Reply("apology")), "embedding", TRUE)
        ELSE IF pricing /\ ~ContextOf(noted, s).lead_collected
          THEN asked(start_lead_collection(noted, s, question))
        ELSE IF env.fault = "reranker" /\ chunks # {}
          THEN Raised(Outcome(noted, ld, Reply("exception")), "reranker", TRUE)
        ELSE Outcome(answered(noted), ld, Reply("answer"))
      detected(pricing) ==
        retrieved(pricing,
                  IF pricing /\ ContextOf(eng, s).original_pricing_question = NoText
                    THEN [eng EXCEPT !.conversation_contexts =
                            [EnsureContext(@, s) EXCEPT ![s].original_pricing_question = question]]
                    ELSE eng)
  IN detected(PricingVerdict[question])

\* chat, lines 1530-1645: pricing intent, then retrieval and synthesis
PricingAndRetrieval(eng, ld, s, question, chunks, env) ==
  LET reranked == [i \in DOMAIN env.ranking |-> env.ranking[i].text]
      answered(noted) ==
        [store_source_snippets(noted, s, reranked) EXCEPT
           !.conversation_contexts =
              [EnsureContext(@, s) EXCEPT ![s].last_question = question]]
      asked(started) == Outcome(started, ld, get_lead_collection_request(started, s))
      retrieved(pricing, noted) ==
        IF env.fault = "embedding"
          THEN Raised(Outcome(eng, ld, Reply("apology")), "embedding", TRUE)
        ELSE IF pricing /\ ~ContextOf(noted, s).lead_collected
          THEN asked(start_lead_collection(noted, s, question))
        ELSE IF env.fault = "reranker" /\ chunks # {}
          THEN Raised(Outcome(noted, ld, Reply("apology")), "reranker", TRUE)
        ELSE Outcome(answered(noted), ld, Reply("answer"))
      detected(pricing) ==
        retrieved(pricing,
                  IF pricing /\ ContextOf(eng, s).original_pricing_question = NoText
                    THEN [eng EXCEPT !.conversation_contexts =
                            [EnsureContext(@, s) EXCEPT ![s].original_pricing_question = question]]
                    ELSE eng)
  IN detected(PricingVerdict[question])

\* a chat that does not clear the stored sources of the session
chat_keeping_sources(eng0, ld, s, question, chunks, env) ==
  LET eng == eng0
      dispatched(inline) ==
        IF inline.handled
          THEN [Stored(Outcome(inline.eng, inline.ld, inline.response), inline.stored)
                  EXCEPT !.raised = inline.raised]
        ELSE IF ContextOf(eng, s).username = NoText /\ should_ask_for_name(eng, s)
          THEN Outcome([eng EXCEPT !.name_collection_states =
                          Without(@, s) @@ (s :> [waiting_for_name |-> TRUE,
                                                  name_collected |-> FALSE])],
                       ld, Reply("name_prompt"))
        ELSE PricingAndRetrieval(eng, ld, s, question, chunks, env)
      \* the fast-path's `except Exception` swallows a failing vector query
      after_location(out) ==
        Raised(out, "vector_store", LocationVerdict[question] /\ ~env.vec)
  IN IF LocationVerdict[question] /\ env.vec /\ \E c \in chunks : c.url # NoText
       THEN Outcome(eng, ld, LocationAnswer[env.ranking])
     ELSE IF s \in DOMAIN eng.name_collection_states
               /\ eng.name_collection_states[s].waiting_for_name
       THEN after_location(process_name_collection(eng, ld, s, question, env.db))
     ELSE IF s \in DOMAIN eng.lead_collection_states
       THEN after_location(process_lead_data_step_by_step(eng, ld, s, question, env.db))
     ELSE after_location(dispatched(InlineContact(eng, ld, s, question, env)))

\* chat, lines 1353-1653: the sources are cleared, then the location
\* fast-path, the name gate, the lead gate and the dispatch, in this order
chat(eng0, ld, s, question, chunks, env) ==
  LET eng == [eng0 EXCEPT !.last_sources_by_session = Without(@, s)]
      dispatched(inline) ==
        IF inline.handled
          THEN [Stored(Outcome(inline.eng, inline.ld, inline.response), inline.stored)
                  EXCEPT !.raised = inline.raised]
        ELSE IF ContextOf(eng, s).username = NoText /\ should_ask_for_name(eng, s)
          THEN Outcome([eng EXCEPT !.name_collection_states =
                          Without(@, s) @@ (s :> [waiting_for_name |-> TRUE,
                                                  name_collected |-> FALSE])],
                       ld, Reply("name_prompt"))
        ELSE PricingAndRetrieval(eng, ld, s, question, chunks, env)
      \* the fast-path's `except Exception` swallows a failing vector query
      after_location(out) ==
        Raised(out, "vector_store", LocationVerdict[question] /\ ~env.vec)
  IN IF LocationVerdict[question] /\ env.vec /\ \E c \in chunks : c.url # NoText
       THEN Outcome(eng, ld, LocationAnswer[env.ranking])
     ELSE IF s \in DOMAIN eng.name_collection_states
               /\ eng.name_collection_states[s].waiting_for_name
       THEN after_location(process_name_collection(eng, ld, s, question, env.db))
     ELSE IF s \in DOMAIN eng.lead_collection_states
       THEN after_location(process_lead_data_step_by_step(eng, ld, s, question, env.db))
     ELSE after_location(dispatched(InlineContact(eng, ld, s, question, env)))

(***************************************************************************)
(* TenantChatbotManager and the /chat endpoint                             *)
(***************************************************************************)
\* get_tenant_context: the values are passed through, stripped
get_tenant_context(tenant) ==
  [resource_id |-> tenant.resource_id,
   vector_store_path |-> Stripped[tenant.vector_store_path],
   database_uri |-> Stripped[tenant.database_uri]]

\* get_chatbot: cache_key = f"{resolved_path}::{resolved_db_uri}"
CacheKey(tenant) == <<Stripped[tenant.vector_store_path], Stripped[tenant.database_uri]>>

\* the most process restarts of a run
MaxRestarts == 1

\* the surroundings one chat call can meet (see Faults)
Environments(question, chunks) ==
  LET around(info) ==
        [db : BOOLEAN,
         vec : IF LocationVerdict[question] THEN BOOLEAN ELSE {TRUE},
         fault : Faults,
         first_phone : IF info.phones = {} THEN {NoText} ELSE info.phones,
         first_email : IF info.emails = {} THEN {NoText} ELSE info.emails,
         ranking : Rankings(chunks)]
  IN around(ContactInfo[question])

\* get_chatbot: the cached engine of the cache key, or a brand-new one
get_chatbot(insts, tenant, mongoUp) ==
  IF CacheKey(tenant) \in DOMAIN insts THEN insts[CacheKey(tenant)]
  ELSE NewEngine(get_tenant_context(tenant), mongoUp)

\* POST /chat: _handle_chat_request, get_chatbot and chat for one message;
\* ups is what init_mongodb_connection of a new engine can meet and dbs is
\* what a call on the record store can meet (TRUE: the store answers)
ChatCall(tenant, s, question, ups, dbs) ==
  /\ bot.pc = "running"
  /\ \E mongoUp \in IF CacheKey(tenant) \in DOMAIN instances THEN {TRUE} ELSE ups,
        reloadOk \in IF CacheKey(tenant) \in DOMAIN instances /\ CacheKey(tenant) \in needs_reload
                       THEN BOOLEAN ELSE {TRUE} :
    LET flagged == CacheKey(tenant) \in DOMAIN instances /\ CacheKey(tenant) \in needs_reload
        eng == IF flagged
                 THEN reload_vector_store(get_chatbot(instances, tenant, mongoUp), reloadOk)
                 ELSE get_chatbot(instances, tenant, mongoUp)
        \* with the collection None every query raises and no chunk is retrieved
        chunks == IF eng.collection = "none" THEN {}
                  ELSE vector_store[DiskPath[eng.vector_store_path]]
    IN \E out \in {chat(eng, leads[eng.mongo_uri], s, question, chunks, env) :
                      env \in {e \in Environments(question, chunks) : e.db \in dbs}} :
            /\ instances' = Without(instances, CacheKey(tenant)) @@ (CacheKey(tenant) :> out.eng)
            /\ needs_reload' = IF flagged /\ reloadOk THEN needs_reload \ {CacheKey(tenant)}
                               ELSE needs_reload
            /\ leads' = [leads EXCEPT ![eng.mongo_uri] = out.ld]
            /\ reply' = [resource_id |-> tenant.resource_id, session_id |-> s,
                         question |-> question, response |-> out.response,
                         store_ok |-> out.stored, raised |-> out.raised]
            /\ UNCHANGED <<vector_store, restarts>>
            /\ UNCHANGED schedVars
            /\ UNCHANGED apartVars

\* a chat request whose record store may be down or may fail
ChatRequest(tenant, s, question) == ChatCall(tenant, s, question, BOOLEAN, BOOLEAN)

\* a chat request while the record store is up and answers every call
ChatRequestStoreUp(tenant, s, question) == ChatCall(tenant, s, question, {TRUE}, {TRUE})

\* the bot process exits and run_bot_with_autorestart starts it again: the
\* manager is built anew, the stores on disk stay
ProcessRestart ==
  /\ restarts < MaxRestarts
  /\ restarts' = restarts + 1
  /\ instances' = EmptyMap
  /\ needs_reload' = {}
  /\ UNCHANGED <<vector_store, leads, reply>>
  /\ UNCHANGED schedVars
  /\ UNCHANGED apartVars

(***************************************************************************)
(* The bot process and run_bot_with_autorestart.py                         *)
(***************************************************************************)
\* the bot process ends: the manager and its engines are gone with it
BotExits(code, cause) ==
  /\ bot' = [pc |-> "exited", exit_code |-> code, cause |-> cause]
  /\ instances' = EmptyMap
  /\ needs_reload' = {}
  /\ lock' = "free"
  /\ refreshing' = {}
  /\ UNCHANGED <<vector_store, leads, reply, restarts, served>>
  /\ UNCHANGED <<schedVars, pipelineVars, ragVars>>

\* POST /reload_vectors: delayed_shutdown calls os._exit(0)
ReloadVectors ==
  /\ bot.pc = "running"
  /\ BotExits(0, "reload_vectors")

\* POST /system/restart: kill_process calls os._exit(1)
SystemRestart ==
  /\ bot.pc = "running"
  /\ BotExits(1, "system_restart")

\* the exit code of a bot that dies of an unhandled error
CrashCode == 3

\* the bot dies on its own, or is shut down cleanly
BotCrash ==
  /\ bot.pc = "running"
  /\ BotExits(CrashCode, "crash")

BotShutdown ==
  /\ bot.pc = "running"
  /\ BotExits(0, "shutdown")

\* a wrapper that restarts only on the code of a requested restart
WrapperLoopOnRequestOnly ==
  /\ bot.pc = "exited"
  /\ IF bot.exit_code # 1
       THEN bot' = [bot EXCEPT !.pc = "stopped"] /\ UNCHANGED restarts
       ELSE /\ restarts < MaxRestarts
            /\ restarts' = restarts + 1
            /\ bot' = [bot EXCEPT !.pc = "running"]
  /\ UNCHANGED <<instances, needs_reload, vector_store, leads, reply>>
  /\ UNCHANGED <<schedVars, registryVars, pipelineVars, ragVars>>

\* the restart loop after subprocess.run returns: exit code 0 breaks the
\* loop, any other code runs the bot again
WrapperLoop ==
  /\ bot.pc = "exited"
  /\ IF bot.exit_code = 0
       THEN bot' = [bot EXCEPT !.pc = "stopped"] /\ UNCHANGED restarts
       ELSE /\ restarts < MaxRestarts
            /\ restarts' = restarts + 1
            /\ bot' = [bot EXCEPT !.pc = "running"]
  /\ UNCHANGED <<instances, needs_reload, vector_store, leads, reply>>
  /\ UNCHANGED <<schedVars, registryVars, pipelineVars, ragVars>>

\* except KeyboardInterrupt: sys.exit(0); the bot, if it runs, ends with the wrapper
WrapperInterrupted ==
  /\ bot.pc # "stopped"
  /\ bot' = [bot EXCEPT !.pc = "stopped", !.cause = "interrupted"]
  /\ instances' = EmptyMap
  /\ needs_reload' = {}
  /\ lock' = "free"
  /\ refreshing' = {}
  /\ UNCHANGED <<vector_store, leads, reply, restarts, served>>
  /\ UNCHANGED <<schedVars, pipelineVars, ragVars>>

(***************************************************************************)
(* The registry endpoints: GET /leads/count, POST /mark-data-updated and   *)
(* POST /refresh-cache.  A coroutine runs without interruption up to its   *)
(* next suspension; none of the registry's methods suspends while it holds *)
(* the lock, so each call is one step.                                     *)
(***************************************************************************)
\* the spellings of one directory that a caller may send
AcmeSpellings == {AcmePath, AcmeSlashPath}

\* the tenant context of a request of tenant acme
Request(path, uri) == [resource_id |-> "acme", vector_store_path |-> path, database_uri |-> uri]

\* invalidate_tenant and mark_data_updated:
\* cache_key = f"{_prepare_vector_store_path(path)}::{database_uri or ...}"
PreparedKey(tenant) == <<DiskPath[tenant.vector_store_path], tenant.database_uri>>

\* what a call on the registry leaves behind
Call(op, tenant, key, result, under_lock) ==
  [op |-> op, vector_store_path |-> tenant.vector_store_path,
   database_uri |-> tenant.database_uri, key |-> key, result |-> result,
   under_lock |-> under_lock, turn |-> ~served.turn, closed |-> {}]

\* the call, with the cache keys of the engines whose connections it closed
Closing(call, closed) == [call EXCEPT !.closed = closed]

\* a destroy phase that drops the cached engine with its connections open
force_destroy_unclosed(insts, key) ==
  [instances |-> Without(insts, key), closed |-> {}]

\* get_chatbot(force_reload=True), under the lock: the connections of the
\* engine cached for the key are closed and the engine is removed from the
\* cache; closed is the set of keys whose engine was closed
force_destroy(insts, key) ==
  [instances |-> Without(insts, key),
   closed |-> DOMAIN insts \cap {key}]

\* a get that hands out the cached engine without looking at the dirty flag
get_chatbot_call_unflagged(insts, flags, tenant, force_reload, mongoUp, reloadOk) ==
  LET returned(key, kept) ==
        IF key \in DOMAIN kept
          THEN [instances |-> kept, needs_reload |-> flags,
                result |-> "cached", under_lock |-> FALSE,
                closed |-> IF force_reload THEN force_destroy(insts, key).closed ELSE {}]
          ELSE [instances |-> kept @@ (key :> NewEngine(get_tenant_context(tenant), mongoUp)),
                needs_reload |-> flags,
                result |-> IF key \in DOMAIN insts THEN "recreated" ELSE "created",
                under_lock |-> TRUE,
                closed |-> IF force_reload THEN force_destroy(insts, key).closed ELSE {}]
  IN returned(CacheKey(tenant),
              IF force_reload THEN Without(insts, CacheKey(tenant)) ELSE insts)

\* get_chatbot in full: the destroy phase of force_reload, the lock-free
\* fast path with the dirty-flag reload, and the creation under the lock.
\* reloadOk is whether reload_vector_store returned rather than raised.
get_chatbot_call(insts, flags, tenant, force_reload, mongoUp, reloadOk) ==
  LET returned(key, kept, closed) ==
        IF key \in DOMAIN kept
          THEN IF key \in flags
                 THEN [instances |-> [kept EXCEPT ![key] = reload_vector_store(@, reloadOk)],
                       needs_reload |-> IF reloadOk THEN flags \ {key} ELSE flags,
                       result |-> IF reloadOk THEN "reloaded" ELSE "reload_failed",
                       under_lock |-> FALSE, closed |-> closed]
                 ELSE [instances |-> kept, needs_reload |-> flags,
                       result |-> "cached", under_lock |-> FALSE, closed |-> closed]
          ELSE [instances |-> kept @@ (key :> NewEngine(get_tenant_context(tenant), mongoUp)),
                needs_reload |-> flags,
                result |-> IF key \in DOMAIN insts THEN "recreated" ELSE "created",
                under_lock |-> TRUE, closed |-> closed]
      destroyed(key, out) == returned(key, out.instances, out.closed)
  IN IF force_reload
       THEN destroyed(CacheKey(tenant), force_destroy(insts, CacheKey(tenant)))
       ELSE returned(CacheKey(tenant), insts, {})

\* an invalidate that leaves the dirty flag alone when no engine is cached
invalidate_tenant_silent(insts, flags, tenant) ==
  LET done(key) ==
        IF key \in DOMAIN insts
          THEN [instances |-> Without(insts, key), needs_reload |-> flags \ {key},
                result |-> "destroyed", lock |-> "free", closed |-> {key}]
          ELSE [instances |-> insts, needs_reload |-> flags,
                result |-> "flagged", lock |-> "free", closed |-> {}]
  IN done(PreparedKey(tenant))

\* invalidate_tenant: under the lock, the cached engine is closed and removed
\* with its reload tracking; without a cached engine the dirty flag is set
invalidate_tenant(insts, flags, tenant) ==
  LET done(key) ==
        IF key \in DOMAIN insts
          THEN [instances |-> Without(insts, key), needs_reload |-> flags \ {key},
                result |-> "destroyed", lock |-> "free", closed |-> {key}]
          ELSE [instances |-> insts, needs_reload |-> flags \cup {key},
                result |-> "flagged", lock |-> "free", closed |-> {}]
  IN done(PreparedKey(tenant))

\* GET /leads/count: get_tenant_chatbot_or_error, then a count of the leads
GetLeadsCount(path, uri) ==
  /\ bot.pc = "running"
  /\ \E mongoUp \in BOOLEAN, reloadOk \in BOOLEAN :
       LET got(out) ==
             /\ out.under_lock => lock = "free"
             /\ instances' = out.instances
             /\ needs_reload' = out.needs_reload
             /\ served' = Closing(Call("get", Request(path, uri), CacheKey(Request(path, uri)),
                                       out.result, out.under_lock), out.closed)
       IN got(get_chatbot_call(instances, needs_reload, Request(Stripped[path], Stripped[uri]),
                               FALSE, mongoUp, reloadOk))
  /\ UNCHANGED <<vector_store, leads, reply, restarts, lock, refreshing>>
  /\ UNCHANGED <<schedVars, hostVars, pipelineVars, ragVars>>

\* POST /mark-data-updated: the dirty flag is set, without the lock
MarkDataUpdated(path, uri) ==
  /\ bot.pc = "running"
  /\ needs_reload' = needs_reload \cup {PreparedKey(Request(path, uri))}
  /\ served' = Call("mark", Request(path, uri), PreparedKey(Request(path, uri)), "flagged", FALSE)
  /\ UNCHANGED <<instances, vector_store, leads, reply, restarts, lock, refreshing>>
  /\ UNCHANGED <<schedVars, hostVars, pipelineVars, ragVars>>

\* a /refresh-cache whose invalidate closes the clients of the cached engine
\* and then waits, with the lock and with the engine still in the cache
RefreshCacheInvalidateSuspending(path, uri) ==
  /\ bot.pc = "running"
  /\ lock = "free"
  /\ Request(path, uri) \notin refreshing
  /\ LET done(out) ==
           /\ instances' = IF out.result = "destroyed" THEN instances ELSE out.instances
           /\ needs_reload' = out.needs_reload
           /\ lock' = IF out.result = "destroyed" THEN "invalidate" ELSE out.lock
           /\ served' = Closing(Call("invalidate", Request(path, uri),
                                     PreparedKey(Request(path, uri)), out.result, TRUE),
                                out.closed)
     IN done(invalidate_tenant(instances, needs_reload, Request(path, uri)))
  /\ refreshing' = refreshing \cup {Request(path, uri)}
  /\ UNCHANGED <<vector_store, leads, reply, restarts>>
  /\ UNCHANGED <<schedVars, hostVars, pipelineVars, ragVars>>

\* POST /refresh-cache up to its asyncio.sleep: invalidate_tenant
RefreshCacheInvalidate(path, uri) ==
  /\ bot.pc = "running"
  /\ lock = "free"
  /\ Request(path, uri) \notin refreshing
  /\ LET done(out) ==
           /\ instances' = out.instances
           /\ needs_reload' = out.needs_reload
           /\ lock' = out.lock
           /\ served' = Closing(Call("invalidate", Request(path, uri),
                                     PreparedKey(Request(path, uri)), out.result, TRUE),
                                out.closed)
     IN done(invalidate_tenant(instances, needs_reload, Request(path, uri)))
  /\ refreshing' = refreshing \cup {Request(path, uri)}
  /\ UNCHANGED <<vector_store, leads, reply, restarts>>
  /\ UNCHANGED <<schedVars, hostVars, pipelineVars, ragVars>>

\* POST /refresh-cache after its asyncio.sleep: get_chatbot(force_reload=True)
RefreshCacheGet(path, uri) ==
  /\ bot.pc = "running"
  /\ lock = "free"
  /\ Request(path, uri) \in refreshing
  /\ \E mongoUp \in BOOLEAN :
       LET got(out) ==
             /\ instances' = out.instances
             /\ needs_reload' = out.needs_reload
             /\ served' = Closing(Call("force_get", Request(path, uri),
                                       CacheKey(Request(path, uri)),
                                       out.result, out.under_lock), out.closed)
       IN got(get_chatbot_call(instances, needs_reload, Request(path, uri), TRUE, mongoUp, TRUE))
  /\ refreshing' = refreshing \ {Request(path, uri)}
  /\ UNCHANGED <<vector_store, leads, reply, restarts, lock>>
  /\ UNCHANGED <<schedVars, hostVars, pipelineVars, ragVars>>

(***************************************************************************)
(* The update run: ContentChangeDetectorSpider (UPDATER/updater.py) on top *)
(* of FixedUniversalSpider (Scraping2/spiders/spider.py)                   *)
(***************************************************************************)
HomeUrl == "https://acme.test/"

AboutUrl == "https://acme.test/about"

Urls == {HomeUrl, AboutUrl}

\* the outbound links of each page
Links == [u \in Urls |-> Urls \ {u}]

\* a page as the spider meets it: the length of the stripped body text and
\* the text that _clean_webpage_text makes of it
ThinPage == [preview_length |-> 4, cleaned |-> ""]

PageOne == [preview_length |-> 40, cleaned |-> "opening hours of the shop"]

PageTwo == [preview_length |-> 44, cleaned |-> "new opening hours of the shop"]

Pages == {ThinPage, PageOne, PageTwo}

InitialSite == [u \in Urls |-> PageOne]

\* `len(preview_text.strip()) < 10`
MinPreview == 10

\* hashlib.sha256(cleaned_text.encode('utf-8')).hexdigest()
Sha256(text) == <<"sha256", text>>

\* no tracking record: find_one returns None
NoRecord == [content_hash |-> << >>, last_checked |-> 0, last_modified |-> 0]

\* the most update runs
MaxRuns == 2

NotSeen == "not seen"

NoCrawl ==
  [pc |-> "idle", run |-> 0, frontier |-> {}, requested |-> {}, processed |-> {},
   clock |-> 1, before |-> [u \in Urls |-> NotSeen], during |-> [u \in Urls |-> NotSeen]]

NoParse ==
  [url |-> "", at |-> 0, branch |-> "none", forwarded |-> FALSE, documents |-> 0,
   followed |-> {}, store_failed |-> FALSE]

\* a pipeline that replaces the documents of a URL by the new ones
collection_add_replacing(collection, documents) ==
  {d \in collection : \A n \in documents : n.url # d.url} \cup documents

\* ChromaDBPipeline._process_batch: self.collection.add(documents, ids,
\* metadatas); the ids carry the timestamp and are new
collection_add(collection, documents) == collection \cup documents

\* the number of documents the pipelines store for a forwarded page
Extracted == {0, 1}

\* a change detection that stamps last_modified on an unchanged page as well
parse_restamping(record, page, now, findOk, writeOk) ==
  LET detected(content_hash) ==
        IF record = NoRecord \/ record.content_hash # content_hash
          THEN [record |-> IF writeOk
                             THEN [content_hash |-> content_hash, last_checked |-> now,
                                   last_modified |-> now]
                             ELSE record,
                branch |-> IF record = NoRecord THEN "new" ELSE "modified",
                forward |-> TRUE]
          ELSE [record |-> IF writeOk
                             THEN [record EXCEPT !.last_checked = now, !.last_modified = now]
                             ELSE record,
                branch |-> "unchanged", forward |-> FALSE]
  IN IF page.preview_length < MinPreview
       THEN [record |-> record, branch |-> "empty", forward |-> FALSE]
       ELSE IF ~findOk
              THEN [record |-> record, branch |-> "error", forward |-> FALSE]
              ELSE detected(Sha256(page.cleaned))

\* ContentChangeDetectorSpider.parse up to its yields: the tracking record
\* it leaves, the branch it took and whether it hands the page to
\* parse_page.  findOk and writeOk are whether find_one and update_one
\* returned rather than raised; now is datetime.utcnow().
parse(record, page, now, findOk, writeOk) ==
  LET detected(content_hash) ==
        IF record = NoRecord \/ record.content_hash # content_hash
          THEN [record |-> IF writeOk
                             THEN [content_hash |-> content_hash, last_checked |-> now,
                                   last_modified |-> now]
                             ELSE record,
                branch |-> IF record = NoRecord THEN "new" ELSE "modified",
                forward |-> TRUE]
          ELSE [record |-> IF writeOk THEN [record EXCEPT !.last_checked = now] ELSE record,
                branch |-> "unchanged", forward |-> FALSE]
  IN IF page.preview_length < MinPreview
       THEN [record |-> record, branch |-> "empty", forward |-> FALSE]
       ELSE IF ~findOk
              THEN [record |-> record, branch |-> "error", forward |-> FALSE]
              ELSE detected(Sha256(page.cleaned))

\* run_updater starts the spider: start_requests queues the start URL with
\* dont_filter, which the dupefilter does not record
StartRun ==
  /\ crawl.pc = "idle"
  /\ crawl.run < MaxRuns
  /\ crawl' = [crawl EXCEPT !.pc = "crawling", !.run = @ + 1, !.frontier = {HomeUrl},
                             !.requested = {}, !.processed = {},
                             !.before = crawl.during,
                             !.during = [u \in Urls |-> NotSeen]]
  /\ UNCHANGED <<site, url_tracking, added, parsed, chroma>>
  /\ UNCHANGED <<chatVars, schedVars, hostVars, registryVars, ragVars, chunkVars, spiderVars>>

\* the response of one queued request reaches parse (parse_any routes every
\* response to it): change detection, then either parse_page with its
\* extraction, the pipelines and its link discovery, or link discovery alone
Parse(url) ==
  /\ crawl.pc = "crawling"
  /\ url \in crawl.frontier
  /\ \E findOk \in BOOLEAN, writeOk \in BOOLEAN, documents \in Extracted, storeOk \in BOOLEAN :
       LET done(out, fresh) ==
             LET extracted == IF out.forward /\ fresh THEN documents ELSE 0
                 \* a batch that fails after its retries is dropped
                 count == IF storeOk THEN extracted ELSE 0
                 processed == IF out.forward THEN crawl.processed \cup {url}
                              ELSE crawl.processed
                 followed == IF out.forward /\ ~fresh THEN {}
                             ELSE Links[url] \ processed
             IN /\ url_tracking' = [url_tracking EXCEPT ![url] = out.record]
                /\ added' = [added EXCEPT ![url] = @ + count]
                /\ chroma' = collection_add(chroma,
                                {[url |-> url, text |-> site[url].cleaned, ts |-> crawl.clock,
                                  chunk_index |-> i] : i \in 1..count})
                /\ parsed' = [url |-> url, at |-> crawl.clock, branch |-> out.branch,
                              forwarded |-> out.forward, documents |-> count,
                              followed |-> followed,
                              store_failed |-> extracted > 0 /\ ~storeOk]
                /\ crawl' = [crawl EXCEPT
                               !.frontier = (@ \ {url}) \cup (followed \ crawl.requested),
                               !.requested = @ \cup followed,
                               !.processed = processed,
                               !.clock = @ + 1,
                               !.during[url] =
                                  IF out.branch \in {"new", "modified", "unchanged"}
                                    THEN site[url].cleaned ELSE @]
       IN done(parse(url_tracking[url], site[url], crawl.clock, findOk, writeOk),
               url \notin crawl.processed)
  /\ UNCHANGED site
  /\ UNCHANGED <<chatVars, schedVars, hostVars, registryVars, ragVars, chunkVars, spiderVars>>

\* the queue is empty: the spider closes
CloseRun ==
  /\ crawl.pc = "crawling"
  /\ crawl.frontier = {}
  /\ crawl' = [crawl EXCEPT !.pc = "idle"]
  /\ UNCHANGED <<site, url_tracking, added, parsed, chroma>>
  /\ UNCHANGED <<chatVars, schedVars, hostVars, registryVars, ragVars, chunkVars, spiderVars>>

\* between two runs the site's owner changes a page
EditPage(url, page) ==
  /\ crawl.pc = "idle"
  /\ crawl.run \in 1..(MaxRuns - 1)
  /\ page # site[url]
  /\ site' = [site EXCEPT ![url] = page]
  /\ UNCHANGED <<url_tracking, crawl, added, parsed, chroma>>
  /\ UNCHANGED <<chatVars, schedVars, hostVars, registryVars, ragVars, chunkVars, spiderVars>>

(***************************************************************************)
(* FixedUniversalSpider (Scraping2/spiders/spider.py): one crawl of a      *)
(* small site.  A callback runs from its first line to its last without    *)
(* another callback in between; a request is its URL, the depth in its     *)
(* meta, its callback and its dont_filter flag.                            *)
(***************************************************************************)
RootUrl == "https://shop.test/"

PageA == "https://shop.test/a"

\* a link to a fragment of /a
PageATop == "https://shop.test/a#top"

PageB == "https://shop.test/b"

PageC == "https://shop.test/c"

\* a link the extension list of the spider skips
DocPdf == "https://shop.test/doc.pdf"

SitemapUrl == "https://shop.test/sitemap.xml"

SpiderUrls == {RootUrl, PageA, PageB, PageC}

Hrefs == SpiderUrls \cup {PageATop, DocPdf}

\* the links of each page, in the order of the document
PageLinks ==
  [u \in SpiderUrls |->
     CASE u = RootUrl -> <<PageATop, DocPdf, PageA, PageB>>
       [] u = PageA -> <<PageC>>
       [] u = PageB -> <<RootUrl>>
       [] u = PageC -> <<RootUrl, PageB>>]

\* the largest max_depth and max_links_per_page of a crawl
MaxDepth == 1

MaxLinks == 1

\* `extracted_count < 3`
ThinContent == 3

\* _canonicalize_url over these links: the fragment is cut off; none of
\* them has a tracking parameter or a double slash
canonicalize_url == [h \in Hrefs |-> IF h = PageATop THEN PageA ELSE h]

\* the responses of a page: not HTML, HTML without text, HTML of which
\* the extraction makes so many items, and JSON, invalid or of which it
\* makes so many items
Responses ==
  {[json |-> FALSE, html |-> FALSE, text |-> TRUE, extracted |-> 0],
   [json |-> FALSE, html |-> TRUE, text |-> FALSE, extracted |-> 0],
   [json |-> FALSE, html |-> TRUE, text |-> TRUE, extracted |-> 0],
   [json |-> FALSE, html |-> TRUE, text |-> TRUE, extracted |-> ThinContent],
   [json |-> TRUE, html |-> FALSE, text |-> FALSE, extracted |-> 0],
   [json |-> TRUE, html |-> FALSE, text |-> TRUE, extracted |-> 0],
   [json |-> TRUE, html |-> FALSE, text |-> TRUE, extracted |-> 1]}

\* the page URLs a sitemap response lists
SitemapResponses == {<< >>, <<PageC, DocPdf>>}

NoDiscovery == [url |-> "", depth |-> 0, requests |-> << >>]

NoSpider ==
  [pc |-> "idle", max_depth |-> 0, max_links_per_page |-> 0,
   playwright_available |-> FALSE, queue |-> {}, dupefilter |-> {},
   fully_processed_urls |-> {}, currently_processing_urls |-> {},
   discovery |-> NoDiscovery, issued |-> [u \in SpiderUrls |-> 0]]

\* scrapy.ScrapyRequest(url, callback, meta = {depth, playwright}, dont_filter)
ScrapyRequest(url, depth, callback, playwright, dont_filter) ==
  [url |-> url, depth |-> depth, callback |-> callback, playwright |-> playwright,
   dont_filter |-> dont_filter]

is_url_already_processed(sp, url) == canonicalize_url[url] \in sp.fully_processed_urls

mark_url_as_processing(sp, url) ==
  [sp EXCEPT !.currently_processing_urls = @ \cup {canonicalize_url[url]}]

mark_url_as_fully_processed(sp, url) ==
  [sp EXCEPT !.fully_processed_urls = @ \cup {canonicalize_url[url]},
             !.currently_processing_urls = @ \ {canonicalize_url[url]}]

\* _should_process_url: not fully processed, of the domain, and no
\* extension of SKIP_EXTENSIONS
should_process_url(sp, url) ==
  /\ ~is_url_already_processed(sp, url)
  /\ url # DocPdf

\* _should_follow_link: of the domain and none of the excluded patterns,
\* which no link of this site has
should_follow_link(url) == url \in Hrefs

\* the loop of _discover_and_follow_links from the i-th link on, after
\* `followed` requests: the requests it yields, in order
RECURSIVE follow_links(_, _, _, _, _)
follow_links(sp, links, current_depth, i, followed) ==
  IF i > Len(links) THEN << >>
  ELSE LET href == links[i]
           absolute_url == canonicalize_url[href]
           skipped == \/ href \in {links[j] : j \in 1..(i - 1)}
                      \/ ~should_process_url(sp, absolute_url)
                      \/ ~should_follow_link(absolute_url)
                      \/ is_url_already_processed(sp, absolute_url)
                      \/ canonicalize_url[absolute_url] \in sp.currently_processing_urls
       IN IF skipped
            THEN follow_links(sp, links, current_depth, i + 1, followed)
            ELSE <<ScrapyRequest(absolute_url, current_depth + 1, "parse_any", FALSE, FALSE)>>
                 \o (IF followed + 1 >= sp.max_links_per_page
                       THEN << >>
                       ELSE follow_links(sp, links, current_depth, i + 1, followed + 1))

\* _discover_and_follow_links: `if self.max_depth and current_depth >=
\* self.max_depth: return`, then the loop
discover_and_follow_links(sp, current_depth, links) ==
  IF sp.max_depth # 0 /\ current_depth >= sp.max_depth
    THEN << >>
    ELSE follow_links(sp, links, current_depth, 1, 0)

\* what a callback leaves: the spider and the requests it yielded
Yield(sp, requests) == [sp |-> sp, requests |-> requests]

\* the spider after a link discovery on a page: the requests are noted
\* and counted for the page
Discovered(sp, url, current_depth, requests) ==
  [sp EXCEPT !.discovery = [url |-> canonicalize_url[url], depth |-> current_depth,
                            requests |-> requests],
             !.issued[canonicalize_url[url]] = @ + Len(requests)]

\* parse_page: the response of a page request
parse_page(sp, request, response) ==
  LET url == request.url
      marked == mark_url_as_processing(sp, url)
      links == discover_and_follow_links(marked, request.depth, PageLinks[canonicalize_url[url]])
      found == Discovered(marked, url, request.depth, links)
  IN IF ~response.html THEN Yield(sp, << >>)
     ELSE IF is_url_already_processed(sp, url) THEN Yield(sp, << >>)
     ELSE IF ~should_process_url(marked, url) THEN Yield(marked, << >>)
     ELSE IF ~response.text THEN Yield(marked, << >>)
     ELSE IF /\ response.extracted < ThinContent
             /\ ~request.playwright
             /\ sp.playwright_available
            THEN Yield(found, links \o <<ScrapyRequest(url, request.depth, "parse_rendered",
                                                 TRUE, TRUE)>>)
            ELSE Yield(mark_url_as_fully_processed(found, url), links)

\* parse_json: the response of a page request that is JSON
parse_json(sp, request, response) ==
  LET url == request.url
      marked == mark_url_as_processing(sp, url)
  IN IF is_url_already_processed(sp, url) THEN Yield(sp, << >>)
     ELSE IF ~response.text THEN Yield(marked, << >>)
     ELSE IF response.extracted > 0
            THEN Yield(mark_url_as_fully_processed(marked, url), << >>)
            ELSE Yield(marked, << >>)

\* parse_any: JSON goes to parse_json, everything else to parse_page
parse_any(sp, request, response) ==
  IF response.json THEN parse_json(sp, request, response)
  ELSE parse_page(sp, request, response)

\* parse_rendered: the response of the Playwright request of a page
parse_rendered(sp, request, response) ==
  LET url == request.url
      marked == mark_url_as_processing(sp, url)
      links == discover_and_follow_links(marked, request.depth, PageLinks[canonicalize_url[url]])
      found == Discovered(marked, url, request.depth, links)
  IN IF ~response.html THEN Yield(sp, << >>)
     ELSE IF is_url_already_processed(sp, url) THEN Yield(sp, << >>)
     ELSE IF ~response.text THEN Yield(marked, << >>)
     ELSE IF response.extracted > 0
            THEN Yield(mark_url_as_fully_processed(found, url), links)
            ELSE Yield(found, links)

\* parse_sitemap: a request of depth 0 for every listed page that
\* _should_process_url accepts
parse_sitemap(sp, listed) ==
  LET RECURSIVE pages(_)
      pages(i) ==
        IF i > Len(listed) THEN << >>
        ELSE LET page_url == canonicalize_url[listed[i]]
             IN (IF should_process_url(sp, page_url) /\ ~is_url_already_processed(sp, page_url)
                   THEN <<ScrapyRequest(page_url, 0, "parse_any", FALSE, FALSE)>>
                   ELSE << >>) \o pages(i + 1)
  IN Yield(sp, pages(1))

\* the scheduler takes the requests in order: one without dont_filter
\* whose URL the dupefilter has seen is dropped, the others are queued
RECURSIVE Enqueue(_, _, _)
Enqueue(sp, requests, i) ==
  IF i > Len(requests) THEN sp
  ELSE LET request == requests[i]
       IN IF request.dont_filter
            THEN Enqueue([sp EXCEPT !.queue = @ \cup {request}], requests, i + 1)
            ELSE IF request.url \in sp.dupefilter
                   THEN Enqueue(sp, requests, i + 1)
                   ELSE Enqueue([sp EXCEPT !.queue = @ \cup {request},
                                            !.dupefilter = @ \cup {request.url}],
                                requests, i + 1)

\* the engine after a callback: the request is done, its yield is scheduled
Scheduled(out, request) ==
  Enqueue([out.sp EXCEPT !.queue = @ \ {request}], out.requests, 1)

SpiderStep == UNCHANGED <<chatVars, schedVars, hostVars, registryVars, ragVars, crawlVars, chunkVars>>

\* the crawl starts with its settings: start_requests yields the start URL
\* with dont_filter and the sitemap
StartRequests(max_depth, max_links_per_page, playwright_available) ==
  /\ spider.pc = "idle"
  /\ spider' = Enqueue([NoSpider EXCEPT !.pc = "crawling",
                                        !.max_depth = max_depth,
                                        !.max_links_per_page = max_links_per_page,
                                        !.playwright_available = playwright_available],
                       <<ScrapyRequest(RootUrl, 0, "parse_any", FALSE, TRUE),
                         ScrapyRequest(SitemapUrl, 0, "parse_sitemap", FALSE, FALSE)>>, 1)
  /\ SpiderStep

\* a page response reaches parse_any
ParseAny(request, response) ==
  /\ spider.pc = "crawling"
  /\ request \in spider.queue
  /\ request.callback = "parse_any"
  /\ spider' = Scheduled(parse_any(spider, request, response), request)
  /\ SpiderStep

\* the rendered response of a page reaches parse_rendered
ParseRendered(request, response) ==
  /\ spider.pc = "crawling"
  /\ request \in spider.queue
  /\ request.callback = "parse_rendered"
  /\ ~response.json
  /\ spider' = Scheduled(parse_rendered(spider, request, response), request)
  /\ SpiderStep

\* the sitemap response reaches parse_sitemap
ParseSitemap(request, listed) ==
  /\ spider.pc = "crawling"
  /\ request \in spider.queue
  /\ request.callback = "parse_sitemap"
  /\ spider' = Scheduled(parse_sitemap(spider, listed), request)
  /\ SpiderStep

\* a request fails, or its response is not a 2xx and the HTTP error
\* middleware keeps it from the callback: handle_error logs it
HandleError(request) ==
  /\ spider.pc = "crawling"
  /\ request \in spider.queue
  /\ spider' = [spider EXCEPT !.queue = @ \ {request}]
  /\ SpiderStep

\* no request is left: close
SpiderClose ==
  /\ spider.pc = "crawling"
  /\ spider.queue = {}
  /\ spider' = [spider EXCEPT !.pc = "closed"]
  /\ SpiderStep

(***************************************************************************)
(* ChunkingPipeline.process_item (Scraping2/pipelines.py) and chunk_text   *)
(* (Scraping2/add_manual_knowledge.py), which run the same loop.  A        *)
(* sentence is the sequence of the lengths of its words, which single      *)
(* spaces separate; so is a chunk.                                         *)
(***************************************************************************)
max_chunk_size == 3250

min_chunk_size == 250

\* `overlap_words = min(len(words), 15)`
OverlapWords == 15

\* `len(text.strip()) < 10`
MinText == 10

\* `len(chunk.split()) >= 3`
MinWords == 3

RECURSIVE Total(_)
Total(words) == IF words = << >> THEN 0 ELSE Head(words) + Total(Tail(words))

\* len(" ".join(words))
Length(words) == IF words = << >> THEN 0 ELSE Total(words) + Len(words) - 1

\* words[-n:]
LastWords(words, n) ==
  IF Len(words) <= n THEN words ELSE SubSeq(words, Len(words) - n + 1, Len(words))

RECURSIVE Flatten(_)
Flatten(sentences) ==
  IF sentences = << >> THEN << >> ELSE Head(sentences) \o Flatten(Tail(sentences))

\* the loop over the sentences: the chunks emitted and the running chunk
RECURSIVE ChunkLoop(_, _, _)
ChunkLoop(sentences, current_chunk, chunks) ==
  IF sentences = << >> THEN [current_chunk |-> current_chunk, chunks |-> chunks]
  ELSE LET step(sentence, rest) ==
             IF sentence = << >> THEN ChunkLoop(rest, current_chunk, chunks)
             ELSE IF Length(current_chunk \o sentence) > max_chunk_size /\ current_chunk # << >>
                    THEN ChunkLoop(rest, LastWords(current_chunk, OverlapWords) \o sentence,
                                   IF Length(current_chunk) >= min_chunk_size
                                     THEN Append(chunks, current_chunk) ELSE chunks)
                    ELSE ChunkLoop(rest, current_chunk \o sentence, chunks)
       IN step(Head(sentences), Tail(sentences))

\* process_item without its filter on the number of words
process_item_unfiltered(sentences) ==
  LET Drop == [dropped |-> TRUE, chunks |-> << >>]
      whole(chunks, text) ==
        IF chunks = << >> /\ Length(text) >= min_chunk_size
          THEN [dropped |-> FALSE, chunks |-> <<text>>]
        ELSE IF chunks = << >> THEN Drop
        ELSE [dropped |-> FALSE, chunks |-> chunks]
      tailed(loop) ==
        IF loop.current_chunk # << >> /\ Length(loop.current_chunk) >= min_chunk_size
          THEN Append(loop.chunks, loop.current_chunk) ELSE loop.chunks
      checked(text) ==
        IF text = << >> \/ Length(text) < MinText THEN Drop
        ELSE whole(tailed(ChunkLoop(sentences, << >>, << >>)), text)
  IN checked(Flatten(sentences))

\* ChunkingPipeline.process_item: the text too short, the loop, the last
\* running chunk, the fallback to the whole text, DropItem for no chunk, the
\* filter on the number of words and DropItem for no chunk left
process_item(sentences) ==
  LET Drop == [dropped |-> TRUE, chunks |-> << >>]
      quality(chunks) ==
        LET quality_chunks == SelectSeq(chunks, LAMBDA c : Len(c) >= MinWords)
        IN IF quality_chunks = << >> THEN Drop
           ELSE [dropped |-> FALSE, chunks |-> quality_chunks]
      whole(chunks, text) ==
        IF chunks = << >> /\ Length(text) >= min_chunk_size THEN quality(<<text>>)
        ELSE IF chunks = << >> THEN Drop
        ELSE quality(chunks)
      tailed(loop) ==
        IF loop.current_chunk # << >> /\ Length(loop.current_chunk) >= min_chunk_size
          THEN Append(loop.chunks, loop.current_chunk) ELSE loop.chunks
      checked(text) ==
        IF text = << >> \/ Length(text) < MinText THEN Drop
        ELSE whole(tailed(ChunkLoop(sentences, << >>, << >>)), text)
  IN checked(Flatten(sentences))

\* chunk_text's loop over the sentences (add_manual_knowledge.py)
RECURSIVE chunk_text_loop(_, _, _)
chunk_text_loop(sentences, current_chunk, chunks) ==
  IF sentences = << >> THEN [current_chunk |-> current_chunk, chunks |-> chunks]
  ELSE LET step(sentence, rest) ==
             IF sentence = << >> THEN chunk_text_loop(rest, current_chunk, chunks)
             ELSE IF Length(current_chunk \o sentence) > max_chunk_size /\ current_chunk # << >>
                    THEN chunk_text_loop(rest, LastWords(current_chunk, OverlapWords) \o sentence,
                                         IF Length(current_chunk) >= min_chunk_size
                                           THEN Append(chunks, current_chunk) ELSE chunks)
                    ELSE chunk_text_loop(rest, current_chunk \o sentence, chunks)
       IN step(Head(sentences), Tail(sentences))

\* chunk_text: the loop, the last running chunk, the fallback to the whole
\* text and the filter on the number of words
chunk_text(sentences) ==
  LET filtered(chunks) == SelectSeq(chunks, LAMBDA c : Len(c) >= MinWords)
      whole(chunks, text) ==
        IF chunks = << >> /\ Length(text) >= min_chunk_size THEN <<text>> ELSE chunks
      tailed(loop) ==
        IF loop.current_chunk # << >> /\ Length(loop.current_chunk) >= min_chunk_size
          THEN Append(loop.chunks, loop.current_chunk) ELSE loop.chunks
  IN filtered(whole(tailed(chunk_text_loop(sentences, << >>, << >>)), Flatten(sentences)))

\* the most words of a sentence and the most sentences of a text
MaxWords == 3

MaxSentences == 2

\* the lengths of the words
WordLengths == {120, 1100}

\* a sentence followed by more words of one character than the overlap keeps
LongTail(sentence) == sentence \o [i \in 1..(OverlapWords + 1) |-> 1]

\* sentences of one word, sentences of MaxWords words, and the sentence of
\* MaxWords long words with a long tail of short ones
Sentences ==
  [1..1 -> WordLengths] \cup [1..MaxWords -> WordLengths]
    \cup {LongTail(s) : s \in [1..MaxWords -> {1100}]}

ItemTexts == UNION {[1..n -> Sentences] : n \in 1..MaxSentences}

NoItem == [sentences |-> << >>, chunks |-> << >>, status |-> "none"]

NoManual == [chunks |-> << >>, status |-> "none"]

\* an item with its text reaches the pipeline
ReceiveItem(sentences) ==
  /\ item.status = "none"
  /\ item' = [sentences |-> sentences, chunks |-> << >>, status |-> "received"]
  /\ UNCHANGED <<chatVars, schedVars, hostVars, registryVars, ragVars, crawlVars, spiderVars, manual>>

\* ChunkingPipeline.process_item: the item is dropped or leaves with its chunks
ProcessItem ==
  /\ item.status = "received"
  /\ LET done(out) ==
           item' = IF out.dropped THEN [item EXCEPT !.status = "dropped"]
                   ELSE [item EXCEPT !.status = "chunked", !.chunks = out.chunks]
     IN done(process_item(item.sentences))
  /\ UNCHANGED <<chatVars, schedVars, hostVars, registryVars, ragVars, crawlVars, spiderVars, manual>>

\* add_manual_knowledge on the text of the item: chunk_text, and ValueError
\* ("No valid chunks created from content") when it returns no chunk
AddManualKnowledge ==
  /\ item.status # "none"
  /\ manual.status = "none"
  /\ LET done(chunks) ==
           manual' = [chunks |-> chunks,
                      status |-> IF chunks = << >> THEN "error" ELSE "stored"]
     IN done(chunk_text(item.sentences))
  /\ UNCHANGED <<chatVars, schedVars, hostVars, registryVars, ragVars, crawlVars, spiderVars, item>>

(***************************************************************************)
(* chat's multi-pass retrieval and the reranker (BOT/app_20.py).  The      *)
(* collection is a list of documents; a document is a number, 0 a blank    *)
(* one.  collection.query returns the n_results documents nearest to the   *)
(* query: which ones depends on the embedding, here on `seed`.             *)
(***************************************************************************)
\* str.split(): the words in their order
RECURSIVE WordList(_)
WordList(s) ==
  LET starts == {i \in 1..Len(s) : s[i] \notin Space}
      from(b) ==
        LET e == Min({j \in b..Len(s) : j = Len(s) \/ s[j + 1] \in Space})
        IN <<SubSeq(s, b, e)>> \o WordList(SubSeq(s, e + 1, Len(s)))
  IN IF starts = {} THEN << >> ELSE from(Min(starts))

\* ' '.join(words)
RECURSIVE JoinSpace(_)
JoinSpace(words) ==
  IF words = << >> THEN << >>
  ELSE IF Len(words) = 1 THEN words[1]
  ELSE words[1] \o <<" ">> \o JoinSpace(Tail(words))

\* str.replace(sub, '')
RECURSIVE RemoveSub(_, _)
RemoveSub(s, sub) ==
  IF s = << >> THEN << >>
  ELSE IF OccursAt(sub, s, 1) THEN RemoveSub(SubSeq(s, Len(sub) + 1, Len(s)), sub)
  ELSE <<s[1]>> \o RemoveSub(Tail(s), sub)

\* str.rstrip(chars)
RStripChars(s, chars) ==
  LET keep == {i \in 1..Len(s) : s[i] \notin chars}
  IN IF keep = {} THEN << >> ELSE SubSeq(s, 1, Max(keep))

\* docs[:n]
Prefix(docs, n) == IF Len(docs) <= n THEN docs ELSE SubSeq(docs, 1, n)

\* n_results of the queries, and the cuts of the lists
EmbeddingResults == 50

WordResults == 25

TermResults == 20

VariationResults == 40

SemanticLimit == 80

PassOneLimit == 50

TextResults == 50

EntityResults == 30

MaxEntities == 5

RerankTopN == 40

max_passages == 10

\* collection.query(n_results=n): the n documents nearest to the query
Query(collection, key, n) ==
  IF collection = << >> THEN << >>
  ELSE [i \in 1..(IF Len(collection) < n THEN Len(collection) ELSE n) |->
          collection[((key + i - 1) % Len(collection)) + 1]]

\* where a text lies among the embeddings
KeyOf(text, seed) == seed + Len(text)

\* the queries of a list of texts, one after the other
RECURSIVE QueryEach(_, _, _, _)
QueryEach(collection, texts, seed, n) ==
  IF texts = << >> THEN << >>
  ELSE Query(collection, KeyOf(Head(texts), seed), n)
         \o QueryEach(collection, Tail(texts), seed, n)

\* the positions of a set in ascending order
RECURSIVE Ascending(_)
Ascending(S) == IF S = {} THEN << >> ELSE <<Min(S)>> \o Ascending(S \ {Min(S)})

\* the documents of a list at their first occurrence, in the order of the list
FirstOccurrences(docs, values) ==
  LET at == Ascending({Min({i \in DOMAIN docs : docs[i] = d}) : d \in values})
  IN [k \in DOMAIN at |-> docs[at[k]]]

\* `if doc and doc.strip() and doc not in seen`
UniqueDocs(docs) == FirstOccurrences(docs, Range(docs) \ {0})

\* analyze_question_semantically: entity_mentions is computed and is not
\* among the keys of the dict returned
analyze_question_semantically(question) ==
  [intent |-> "general_inquiry",
   key_concepts |-> WordList(question),
   original_question |-> question]

\* the words that expand no search (Strategy 3 of comprehensive_semantic_retrieval)
ExpansionTriggers ==
  {<<"f","o","u","n","d","e","d">>, <<"e","s","t","a","b","l","i","s","h">>,
   <<"s","t","a","r","t">>, <<"b","e","g","a","n">>, <<"c","r","e","a","t","e">>,
   <<"y","e","a","r">>, <<"w","h","e","n">>, <<"d","a","t","e">>, <<"t","i","m","e">>,
   <<"c","o","m","p","a","n","y">>, <<"b","u","s","i","n","e","s","s">>,
   <<"o","r","g","a","n","i","z","a","t","i","o","n">>,
   <<"h","e","a","d">>, <<"c","e","o">>, <<"l","e","a","d","e","r">>,
   <<"m","a","n","a","g","e","r">>, <<"d","i","r","e","c","t","o","r">>}

\* comprehensive_semantic_retrieval for a question that holds no expansion
\* trigger: the embedding query, a query for each word of more than two
\* characters, one for each key concept of more than one, one for each
\* variation of more than three; the non-blank documents once each, 80 at most.
\* An exception of the first query ends it with no document.
comprehensive_semantic_retrieval(qa, collection, seed, storeOk) ==
  LET question_words ==
        LET long == SelectSeq(WordList(qa.original_question), LAMBDA w : Len(w) > 2)
        IN [i \in DOMAIN long |-> Strip(ToLower(long[i]))]
      terms == SelectSeq(qa.key_concepts, LAMBDA t : Len(t) > 1)
      variations ==
        SelectSeq(<<qa.original_question,
                    Strip(RemoveSub(RemoveSub(qa.original_question, <<"w", "a", "s">>),
                                    <<"i", "s">>)),
                    JoinSpace(question_words)>>,
                  LAMBDA v : Len(v) > 3)
      docs == Query(collection, seed, EmbeddingResults)
                \o QueryEach(collection, question_words, seed, WordResults)
                \o QueryEach(collection, terms, seed, TermResults)
                \o QueryEach(collection, variations, seed, VariationResults)
  IN IF ~storeOk THEN << >> ELSE Prefix(UniqueDocs(docs), SemanticLimit)

\* sorted(key=score, reverse=True), stable: a document goes behind those of
\* a higher score and those of its own score that came before it
SortByScore(docs, score) ==
  LET rank == [i \in DOMAIN docs |->
                 1 + Cardinality({j \in DOMAIN docs :
                                    \/ score[docs[j]] > score[docs[i]]
                                    \/ score[docs[j]] = score[docs[i]] /\ j < i})]
  IN [k \in DOMAIN docs |-> docs[CHOOSE i \in DOMAIN docs : rank[i] = k]]

\* smart_rerank_candidates without the cut at k
smart_rerank_candidates_uncut(question, docs, topn, semantic, matching) ==
  LET keywords == SelectSeq(WordList(question), LAMBDA w : Len(w) > 3)
      final_score == [d \in Range(docs) |->
                        semantic[d] + 3 * (IF d \in matching THEN Len(keywords) ELSE 0)]
  IN IF docs = << >> THEN << >> ELSE SortByScore(docs, final_score)

\* smart_rerank_candidates: the scores are in tenths, semantic the
\* CrossEncoder's and matching the documents in which the keywords occur;
\* topn = 0 stands for None
smart_rerank_candidates(question, docs, topn, semantic, matching) ==
  LET keywords == SelectSeq(WordList(question), LAMBDA w : Len(w) > 3)
      final_score == [d \in Range(docs) |->
                        semantic[d] + 3 * (IF d \in matching THEN Len(keywords) ELSE 0)]
      k == IF topn # 0 THEN topn ELSE max_passages
  IN IF docs = << >> THEN << >> ELSE Prefix(SortByScore(docs, final_score), k)

\* `for doc in ...: if doc not in seen_docs: all_docs.append(doc)`
Aggregate(all_docs, docs) == FirstOccurrences(all_docs \o docs, Range(all_docs \o docs))

NoPass == [ran |-> FALSE, query |-> NoText, n_results |-> 0, docs |-> << >>]

\* chat, lines 1556-1608: the three passes, the candidates and the reranker
multi_pass_retrieval(question, collection, seed, storeOk, rerankerOk, semantic, matching) ==
  LET qa == analyze_question_semantically(question)
      normalized_query == RStripChars(qa.original_question, {"?", ".", "!", ",", ";"})
      entities == IF "entity_mentions" \in DOMAIN qa THEN qa["entity_mentions"] ELSE << >>
      entity_query == JoinSpace(Prefix(entities, MaxEntities))
      docs1 == Prefix(comprehensive_semantic_retrieval(qa, collection, seed, storeOk),
                      PassOneLimit)
      pass2 == IF storeOk
                 THEN [ran |-> TRUE, query |-> normalized_query, n_results |-> TextResults,
                       docs |-> Query(collection, KeyOf(normalized_query, seed), TextResults)]
                 ELSE [NoPass EXCEPT !.ran = TRUE, !.query = normalized_query,
                                     !.n_results = TextResults]
      pass3 == IF entities = << >> THEN NoPass
               ELSE IF storeOk
                 THEN [ran |-> TRUE, query |-> entity_query, n_results |-> EntityResults,
                       docs |-> Query(collection, KeyOf(entity_query, seed), EntityResults)]
               ELSE [NoPass EXCEPT !.ran = TRUE, !.query = entity_query,
                                   !.n_results = EntityResults]
      ranked(all_docs) ==
        [question |-> question, docs1 |-> docs1, pass2 |-> pass2, pass3 |-> pass3,
         all_docs |-> all_docs,
         reranked |-> IF rerankerOk \/ all_docs = << >>
                        THEN smart_rerank_candidates(normalized_query, all_docs, RerankTopN,
                                                     semantic, matching)
                        ELSE << >>,
         outcome |-> IF rerankerOk \/ all_docs = << >> THEN "answered" ELSE "apology"]
  IN ranked(Aggregate(Aggregate(Aggregate(<< >>, docs1), pass2.docs), pass3.docs))

QHours == <<"o", "p", "e", "n", "i", "n", "g", " ", "h", "o", "u", "r", "s", "!">>

QAcme == <<"A", "c", "m", "e", " ", "S", "h", "o", "p", " ", "h", "o", "u", "r", "s", "?">>

QSix == <<"A", "b", "c", " ", "A", "b", "d", " ", "A", "b", "e", " ",
          "A", "b", "f", " ", "A", "b", "g", " ", "A", "b", "h">>

\* the messages chat answers from the collection
RetrievalQuestions == {QCost, QHours, QAcme, QSix}

\* a collection of n documents, the first of them stored twice, and a blank one
StoredDocs(n) == IF n = 0 THEN << >> ELSE [i \in 1..n |-> i] \o <<1, 0>>

Collections == {StoredDocs(n) : n \in {0, 3, 45, 60}}

Seeds == {0, 7}

\* the CrossEncoder's scores of the documents, in tenths
SemanticScores(collection) ==
  {[d \in Range(collection) |-> d], [d \in Range(collection) |-> 0 - d],
   [d \in Range(collection) |-> 0], [d \in Range(collection) |-> d % 3]}

\* the documents in which the keywords of the question occur
Matchings(collection) == {{}, {d \in Range(collection) : d % 2 = 0}}

NoRetrieval ==
  [question |-> NoText, docs1 |-> << >>, pass2 |-> NoPass, pass3 |-> NoPass,
   all_docs |-> << >>, reranked |-> << >>, outcome |-> "none"]

\* chat reaches the retrieval with a message, the first of the run: lines
\* 1556-1608
Retrieve(question, collection) ==
  /\ retrieval.outcome = "none"
  /\ \A t \in ExpansionTriggers : ~Contains(ToLower(question), t)
  /\ \E seed \in Seeds, storeOk, rerankerOk \in BOOLEAN,
        semantic \in SemanticScores(collection), matching \in Matchings(collection) :
       LET done(r) == retrieval' = r
       IN done(multi_pass_retrieval(question, collection, seed, storeOk, rerankerOk,
                                    semantic, matching))
  /\ UNCHANGED <<chatVars, schedVars, hostVars, registryVars, pipelineVars, located, sources>>

\* chunks the query of the fast-path can return: a second chunk of /about
\* with another title, a page that ties with /about and whose URL is stored
\* with blanks around it, and a chunk without a URL
UsChunk == [text |-> <<"c", "o", "m", "p", "a", "n", "y">>,
            url |-> <<"/", "a", "b", "o", "u", "t">>, page_title |-> <<"U", "s">>]

TeamChunk == [text |-> <<"m", "i", "s", "s", "i", "o", "n", " ", "a", "b", "o", "u", "t">>,
              url |-> <<" ", "/", "t", "e", "a", "m", " ">>, page_title |-> NoText]

ManualChunk == [text |-> <<"a", "b", "o", "u", "t">>, url |-> NoText,
                page_title |-> <<"N", "o", "t", "e">>]

QueryChunks == {AboutChunk, BlogChunk, UsChunk, TeamChunk, ManualChunk}

\* the most chunks the query of the fast-path returns
MaxResults == 3

QueryResults == UNION {[1..n -> QueryChunks] : n \in 1..MaxResults}

NotLocated == [results |-> << >>, response |-> Reply("none")]

\* chat with a location question, the first of the run: the query of the
\* fast-path returns chunks
LocationQuery(results) ==
  /\ located.results = << >>
  /\ located' = [results |-> results, response |-> location_fast_path(results)]
  /\ UNCHANGED <<chatVars, schedVars, hostVars, registryVars, pipelineVars, retrieval, sources>>

MaxDocs == 6

DocLists == UNION {[1..n -> Docs] : n \in 0..MaxDocs}

NoSources == [documents |-> << >>, stored |-> << >>, answered |-> FALSE]

\* chat, line 1629: the retrieval answer of the run stores its sources
StoreSourceSnippets(documents) ==
  /\ ~sources.answered
  /\ LET eng == store_source_snippets(NewEngine(TenantA, TRUE), "s1", documents)
     IN sources' = [documents |-> documents,
                    stored |-> eng.last_sources_by_session["s1"],
                    answered |-> TRUE]
  /\ UNCHANGED <<chatVars, schedVars, hostVars, registryVars, pipelineVars, retrieval, located>>

(***************************************************************************)
(* The scheduler supervisor (run_tenant_scheduler.py) and the updater      *)
(* subprocess it launches (run_tenant_updater.py)                          *)
(***************************************************************************)
\* the most updater jobs of a run
MaxTicks == 2

\* the return code recorded when subprocess.run itself raises
CannotRun == -1

\* a POST to {ADMIN_BACKEND_URL}/api/scrape/scheduler/scrape-complete
Notification(job, sender, success, delivered) ==
  [job |-> job, sender |-> sender, success |-> success, delivered |-> delivered]

\* how run_tenant_updater.main can go: the arguments are refused, run_updater
\* returns statistics, returns none, raises, or is interrupted
UpdaterOutcomes == {"bad_args", "stats", "no_stats", "raised", "interrupted"}

\* run_tenant_updater._notify_scrape_complete: without statistics
\* document_count is None and `document_count > 0` raises before the POST
notify_scrape_complete(log, job, success, hasStats, delivered) ==
  IF ~hasStats THEN [raised |-> TRUE, log |-> log]
  ELSE [raised |-> FALSE, log |-> Append(log, Notification(job, "updater", success, delivered))]

\* run_tenant_updater.main: the exit code of the subprocess and the admin log after it
updater_main(log, job, outcome, delivered) ==
  LET update_success == outcome \in {"stats", "no_stats"}
      notified == notify_scrape_complete(log, job, update_success, outcome = "stats", delivered)
  IN IF outcome = "bad_args" THEN [code |-> 2, log |-> log]
     ELSE IF outcome = "interrupted" THEN [code |-> 130, log |-> log]
     ELSE IF notified.raised THEN [code |-> 1, log |-> log]
     ELSE [code |-> IF update_success THEN 0 ELSE 1, log |-> notified.log]

\* run_tenant_scheduler._notify_backend_scrape_complete: errors are swallowed
notify_backend_scrape_complete(log, job, success, delivered) ==
  Append(log, Notification(job, "scheduler", success, delivered))

\* main after signal.signal(...): the handlers are registered, nothing is
\* written or printed yet
Booting ==
  [pc |-> "boot", shutdown_requested |-> FALSE, jobs_at_signal |-> 0,
   pid_file |-> FALSE, stdout |-> << >>, exit_code |-> "none"]

\* _signal_handler, run between two bytecodes of the main thread:
\* _shutdown_requested = True; jobs_at_signal remembers how many updater
\* jobs had been started when the first signal came
signal_handler(sup, jobs) ==
  [sup EXCEPT !.shutdown_requested = TRUE,
              !.jobs_at_signal = IF sup.shutdown_requested THEN @ ELSE jobs]

\* _run_updater_job up to subprocess.run: the updater is launched, or the
\* launch raises and the backend is told success=False
LaunchUpdater ==
  /\ tick' = tick + 1
  /\ \/ /\ sched_pc' = "updater"
        /\ UNCHANGED <<returncode, admin_log>>
     \/ \E delivered \in BOOLEAN :
          /\ sched_pc' = "idle"
          /\ returncode' = Append(returncode, CannotRun)
          /\ admin_log' = notify_backend_scrape_complete(admin_log, tick', FALSE, delivered)
  /\ UNCHANGED restart_log

\* a termination signal (SIGTERM, SIGINT) reaches the supervisor while it
\* waits: in the updater subprocess, in a request, or in the loop's sleep
Signal ==
  /\ supervisor.pc \in {"boot", "loop"}
  /\ ~supervisor.shutdown_requested
  /\ supervisor' = signal_handler(supervisor, tick)
  /\ UNCHANGED <<sched_pc, tick, returncode, restart_log, admin_log>>
  /\ UNCHANGED chatVars
  /\ UNCHANGED apartVars

\* main from the PID file to the scheduler loop: the PID file is written
\* (a failure is only logged), the 'started' line is printed, and with
\* --run-immediately _run_updater_job is called, whatever _shutdown_requested
Startup ==
  /\ supervisor.pc = "boot"
  /\ \E written \in BOOLEAN, run_immediately \in BOOLEAN :
       /\ supervisor' = [supervisor EXCEPT !.pc = "loop", !.pid_file = written,
                                           !.stdout = Append(@, "started")]
       /\ IF run_immediately THEN LaunchUpdater
          ELSE UNCHANGED <<sched_pc, tick, returncode, restart_log, admin_log>>
  /\ UNCHANGED chatVars
  /\ UNCHANGED apartVars

\* a supervisor that launches the job that is due while one is under way
StartUpdaterJobOverlapping ==
  /\ supervisor.pc = "loop"
  /\ ~supervisor.shutdown_requested
  /\ tick < MaxTicks
  /\ LaunchUpdater
  /\ \E late \in BOOLEAN :
       supervisor' = IF late THEN signal_handler(supervisor, tick) ELSE supervisor
  /\ UNCHANGED chatVars
  /\ UNCHANGED apartVars

\* the loop's schedule.run_pending() with the job due: job_wrapper returns
\* when _shutdown_requested is set, and calls _run_updater_job otherwise; a
\* signal may be handled between that check and subprocess.run
StartUpdaterJob ==
  /\ supervisor.pc = "loop"
  /\ ~supervisor.shutdown_requested
  /\ sched_pc = "idle"
  /\ tick < MaxTicks
  /\ LaunchUpdater
  /\ \E late \in BOOLEAN :
       supervisor' = IF late THEN signal_handler(supervisor, tick) ELSE supervisor
  /\ UNCHANGED chatVars
  /\ UNCHANGED apartVars

\* main after the loop, once _shutdown_requested is seen between two jobs:
\* schedule.clear(), the PID file is removed if it exists, the 'stopped'
\* line is printed and main returns 0
Shutdown ==
  /\ supervisor.pc = "loop"
  /\ supervisor.shutdown_requested
  /\ sched_pc = "idle"
  /\ supervisor' = [supervisor EXCEPT !.pc = "stopped", !.pid_file = FALSE,
                                      !.stdout = Append(@, "stopped"),
                                      !.exit_code = 0]
  /\ UNCHANGED <<sched_pc, tick, returncode, restart_log, admin_log>>
  /\ UNCHANGED chatVars
  /\ UNCHANGED apartVars

\* the updater subprocess runs to its exit
UpdaterRun ==
  /\ sched_pc = "updater"
  /\ \E outcome \in UpdaterOutcomes, delivered \in BOOLEAN :
       /\ returncode' = Append(returncode, updater_main(admin_log, tick, outcome, delivered).code)
       /\ admin_log' = updater_main(admin_log, tick, outcome, delivered).log
  /\ sched_pc' = "exited"
  /\ UNCHANGED <<tick, restart_log, supervisor>>
  /\ UNCHANGED chatVars
  /\ UNCHANGED apartVars

\* a supervisor that asks for the restart whatever the return code
TriggerBotRestartAnyExit ==
  /\ sched_pc = "exited"
  /\ \E acked \in BOOLEAN :
       /\ restart_log' = restart_log \cup {[job |-> tick, acked |-> acked]}
       /\ sched_pc' = IF acked THEN "restarted" ELSE "idle"
       /\ instances' = IF acked THEN EmptyMap ELSE instances
       /\ needs_reload' = IF acked THEN {} ELSE needs_reload
  /\ UNCHANGED <<tick, returncode, admin_log, supervisor>>
  /\ UNCHANGED <<vector_store, leads, reply, restarts>>
  /\ UNCHANGED apartVars

\* returncode == 0: _trigger_bot_restart. An acknowledged /system/restart
\* ends the bot process, which is started again; a failure ends the job.
TriggerBotRestart ==
  /\ sched_pc = "exited"
  /\ returncode[tick] = 0
  /\ \E acked \in BOOLEAN :
       /\ restart_log' = restart_log \cup {[job |-> tick, acked |-> acked]}
       /\ sched_pc' = IF acked THEN "restarted" ELSE "idle"
       /\ instances' = IF acked THEN EmptyMap ELSE instances
       /\ needs_reload' = IF acked THEN {} ELSE needs_reload
  /\ UNCHANGED <<tick, returncode, admin_log, supervisor>>
  /\ UNCHANGED <<vector_store, leads, reply, restarts>>
  /\ UNCHANGED apartVars

\* after the acknowledged restart: _notify_backend_scrape_complete(success=True)
NotifySuccess ==
  /\ sched_pc = "restarted"
  /\ \E delivered \in BOOLEAN :
       admin_log' = notify_backend_scrape_complete(admin_log, tick, TRUE, delivered)
  /\ sched_pc' = "idle"
  /\ UNCHANGED <<tick, returncode, restart_log, supervisor>>
  /\ UNCHANGED chatVars
  /\ UNCHANGED apartVars

\* returncode != 0: _notify_backend_scrape_complete(success=False)
NotifyFailure ==
  /\ sched_pc = "exited"
  /\ returncode[tick] # 0
  /\ \E delivered \in BOOLEAN :
       admin_log' = notify_backend_scrape_complete(admin_log, tick, FALSE, delivered)
  /\ sched_pc' = "idle"
  /\ UNCHANGED <<tick, returncode, restart_log, supervisor>>
  /\ UNCHANGED chatVars
  /\ UNCHANGED apartVars

(***************************************************************************)
(* Specifications                                                          *)
(***************************************************************************)
\* no call on the registry yet
NoCall ==
  [op |-> "none", vector_store_path |-> NoText, database_uri |-> NoText, key |-> << >>,
   result |-> "none", under_lock |-> FALSE, turn |-> FALSE, closed |-> {}]

NoReply ==
  [resource_id |-> "", session_id |-> "", question |-> NoText, response |-> Reply("none"),
   store_ok |-> FALSE, raised |-> {}]

Init ==
  /\ instances = EmptyMap
  /\ needs_reload = {}
  /\ vector_store = InitialVectorStore
  /\ leads = [u \in Uris |-> << >>]
  /\ reply = NoReply
  /\ restarts = 0
  /\ sched_pc = "idle"
  /\ tick = 0
  /\ returncode = << >>
  /\ restart_log = {}
  /\ admin_log = << >>
  /\ supervisor = Booting
  /\ bot = [pc |-> "running", exit_code |-> 0, cause |-> "none"]
  /\ lock = "free"
  /\ served = NoCall
  /\ refreshing = {}
  /\ site = InitialSite
  /\ url_tracking = [u \in Urls |-> NoRecord]
  /\ crawl = NoCrawl
  /\ added = [u \in Urls |-> 0]
  /\ parsed = NoParse
  /\ chroma = {}
  /\ spider = NoSpider
  /\ item = NoItem
  /\ manual = NoManual
  /\ retrieval = NoRetrieval
  /\ located = NotLocated
  /\ sources = NoSources

\* one tenant and one session, every message
ChatNext ==
  \/ \E q \in Questions : ChatRequest(TenantA, "s1", q)
  \/ ProcessRestart

ChatSpec == Init /\ [][ChatNext]_vars

\* one tenant's client while the record store is available without errors
LeadNext == \E q \in Questions : ChatRequestStoreUp(TenantA, "s1", q)

LeadSpec == Init /\ [][LeadNext]_vars

\* the scheduler supervisor of one tenant
SchedulerNext ==
  \/ Startup
  \/ Signal
  \/ StartUpdaterJob
  \/ Shutdown
  \/ UpdaterRun
  \/ TriggerBotRestart
  \/ NotifySuccess
  \/ NotifyFailure

SchedulerSpec == Init /\ [][SchedulerNext]_vars

\* every tenant, with clients that use the same session id
TenantNext ==
  \E t \in Tenants, q \in {QName, QCost} : ChatRequest(t, "s1", q)

TenantSpec == Init /\ [][TenantNext]_vars

\* the bot under the auto-restart wrapper, with one tenant's client
WrapperNext ==
  \/ ReloadVectors
  \/ SystemRestart
  \/ BotCrash
  \/ BotShutdown
  \/ WrapperLoop
  \/ WrapperInterrupted
  \/ \E q \in {QName, QCost} : ChatRequest(TenantA, "s1", q)

WrapperSpec == Init /\ [][WrapperNext]_vars

\* the registry under the requests of one tenant, who spells its directory
\* in more than one way
RegistryNext ==
  \/ \E p \in AcmeSpellings : GetLeadsCount(p, LeadsUri)
  \/ \E p \in AcmeSpellings : MarkDataUpdated(p, LeadsUri)
  \/ \E p \in AcmeSpellings : RefreshCacheInvalidate(p, LeadsUri)
  \/ \E p \in AcmeSpellings : RefreshCacheGet(p, LeadsUri)
  \/ ChatRequest(TenantA, "s1", QName)

RegistrySpec == Init /\ [][RegistryNext]_vars

\* update runs over a site that its owner edits between them
CrawlNext ==
  \/ StartRun
  \/ \E u \in Urls : Parse(u)
  \/ CloseRun
  \/ \E u \in Urls, page \in Pages : EditPage(u, page)

CrawlSpec == Init /\ [][CrawlNext]_vars

\* one crawl of the spider, for every setting within the bounds and every
\* response
SpiderNext ==
  \/ \E max_depth \in 0..MaxDepth, max_links_per_page \in 0..MaxLinks,
        playwright_available \in BOOLEAN :
        StartRequests(max_depth, max_links_per_page, playwright_available)
  \/ \E request \in spider.queue, response \in Responses : ParseAny(request, response)
  \/ \E request \in spider.queue, response \in Responses : ParseRendered(request, response)
  \/ \E request \in spider.queue, listed \in SitemapResponses : ParseSitemap(request, listed)
  \/ \E request \in spider.queue : HandleError(request)
  \/ SpiderClose

SpiderSpec == Init /\ [][SpiderNext]_vars

\* the chunking pipeline over every text
ChunkerNext ==
  \/ \E t \in ItemTexts : ReceiveItem(t)
  \/ ProcessItem
  \/ AddManualKnowledge

ChunkerSpec == Init /\ [][ChunkerNext]_vars

\* the retrieval of chat, for every message and collection
RetrievalNext == \E q \in RetrievalQuestions, c \in Collections : Retrieve(q, c)

RetrievalSpec == Init /\ [][RetrievalNext]_vars

\* the sources of a retrieval answer, for every list of documents
SnippetNext == \E d \in DocLists : StoreSourceSnippets(d)

SnippetSpec == Init /\ [][SnippetNext]_vars

\* the location fast-path of chat, for every list of chunks
LocationNext == \E r \in QueryResults : LocationQuery(r)

LocationSpec == Init /\ [][LocationNext]_vars

(***************************************************************************)
(* What a tenant's clients can observe of a session                        *)
(***************************************************************************)
\* the engine get_chatbot hands to the tenant, if it is cached
EngineOf(t) == {instances[k] : k \in DOMAIN instances \cap {CacheKey(t)}}

\* name_collection_states.get(s), conversation_contexts.get(s) and
\* lead_collection_states.get(s) of the tenant's engine (empty when absent)
NameStateOf(t, s) ==
  UNION {{e.name_collection_states[x] : x \in DOMAIN e.name_collection_states \cap {s}} :
           e \in EngineOf(t)}

ContextsOf(t, s) ==
  UNION {{e.conversation_contexts[x] : x \in DOMAIN e.conversation_contexts \cap {s}} :
           e \in EngineOf(t)}

LeadStateOf(t, s) ==
  UNION {{e.lead_collection_states[x] : x \in DOMAIN e.lead_collection_states \cap {s}} :
           e \in EngineOf(t)}

SessionState(t, s) ==
  [name |-> NameStateOf(t, s), context |-> ContextsOf(t, s), lead |-> LeadStateOf(t, s)]

WaitingForName(t, s) == \E n \in NameStateOf(t, s) : n.waiting_for_name

LeadStateActive(t, s) == LeadStateOf(t, s) # {}

LeadStepAt(t, s, step) == \E l \in LeadStateOf(t, s) : l.current_step = step

LeadCollected(t, s) == \E c \in ContextsOf(t, s) : c.lead_collected

NameCaptured(t, s) == \E c \in ContextsOf(t, s) : c.username # NoText

\* the documents of the session in the tenant's leads collection
LeadRecords(t, s) ==
  {i \in 1..Len(leads[t.database_uri]) : leads[t.database_uri][i].session_id = s}

StatusOf(t, s) ==
  IF LeadRecords(t, s) = {} THEN "none"
  ELSE leads[t.database_uri][Min(LeadRecords(t, s))].status

Rank(status) ==
  CASE status = "none" -> 0
    [] status = "partial" -> 1
    [] status = "phone_collected" -> 2
    [] status = "complete" -> 3

\* the step is a chat request of the tenant, for message reply'.question of
\* session reply'.session_id (every other action changes the restart count,
\* the scheduler's state, the bot process or the record of the registry calls)
ChatStep(t) ==
  /\ UNCHANGED <<restarts, schedVars, apartVars>>
  /\ reply'.resource_id = t.resource_id

\* the step is a message of session s that chat hands to the inline contact
\* extraction: no gate is active and the extractor finds a phone or an email
InlineStep(t, s) ==
  /\ ChatStep(t)
  /\ reply'.session_id = s
  /\ ~WaitingForName(t, s)
  /\ ~LeadStateActive(t, s)
  /\ ContactInfo[reply'.question].has_contact
  /\ reply'.response.kind # "location"

(***************************************************************************)
(* Lead capture: the claims about one tenant's sessions (ChatSpec)         *)
(***************************************************************************)
\* C1 (as worded): the statuses of a session's lead record form a prefix of
\* partial -> phone_collected -> complete: every change of the status goes to
\* the next status of the chain.
C1_StatusChainPrefix ==
  [][\A s \in Sessions :
       StatusOf(TenantA, s)' # StatusOf(TenantA, s)
         => Rank(StatusOf(TenantA, s)') = Rank(StatusOf(TenantA, s)) + 1]_vars

\* C1 (amended): the status of a session's lead record never regresses, and a
\* message handled by the inline contact extraction never skips more than one
\* status of the chain; a step may go from partial to complete.
C1_StatusNeverRegresses ==
  [][\A s \in Sessions :
       /\ Rank(StatusOf(TenantA, s)') >= Rank(StatusOf(TenantA, s))
       /\ InlineStep(TenantA, s)
            => Rank(StatusOf(TenantA, s)') - Rank(StatusOf(TenantA, s)) <= 2]_vars

\* an inline email has taken the record of a named session from partial to complete
C1_Witness ==
  /\ reply.response.kind = "inline_email_saved"
  /\ StatusOf(TenantA, reply.session_id) = "complete"
  /\ \E i \in LeadRecords(TenantA, reply.session_id) : leads[TenantA.database_uri][i].phone = NoText

\* C2: once lead_collected is true for a session, no later message arms
\* waiting_for_name or creates a lead_collection_state.
C2_NoRearmAfterLeadCollected ==
  [][\A s \in Sessions :
       LeadCollected(TenantA, s)
         => /\ WaitingForName(TenantA, s)' => WaitingForName(TenantA, s)
            /\ LeadStateActive(TenantA, s)' => LeadStateActive(TenantA, s)]_vars

\* C3: for a session with no captured name, a message holding a phone or an
\* email only triggers the name gate: the reply is the name prompt, the
\* session waits for the name, and nothing of the contact is kept in the
\* session or the lead store.
C3_ContactBeforeNameOnlyPrompts ==
  [][\A s \in Sessions :
       (/\ ChatStep(TenantA)
        /\ reply'.session_id = s
        /\ ~NameCaptured(TenantA, s)
        /\ ~WaitingForName(TenantA, s)
        /\ ~LeadStateActive(TenantA, s)
        /\ ContactInfo[reply'.question].has_contact)
         => /\ reply'.response.kind = "name_prompt"
            /\ WaitingForName(TenantA, s)'
            /\ ContextsOf(TenantA, s)' = ContextsOf(TenantA, s)
            /\ leads' = leads]_vars

\* C4: when persisting the completed lead fails at the email step, the reply
\* is the generic thank-you, lead_collected is set and the session's
\* lead_collection_state is no longer active.
C4_PersistFailureEndsLeadFlow ==
  [][\A s \in Sessions :
       (/\ ChatStep(TenantA)
        /\ reply'.session_id = s
        /\ LeadStepAt(TenantA, s, "email")
        /\ EmailVerdict[reply'.question].ok
        /\ ~reply'.store_ok)
         => /\ reply'.response.kind = "thank_you_generic"
            /\ LeadCollected(TenantA, s)'
            /\ ~LeadStateActive(TenantA, s)']_vars

\* C5: the lead store holds at most one record per session id, and exactly
\* one once a name has been captured while the store answered.
C5_OneLeadPerSession ==
  /\ \A s \in Sessions : Cardinality(LeadRecords(TenantA, s)) <= 1
  /\ (reply.response.kind = "greeting" /\ reply.store_ok)
       => Cardinality(LeadRecords(TenantA, reply.session_id)) = 1

\* the name of a session is captured again after a restart, with the store answering
C5_Witness ==
  /\ reply.response.kind = "greeting"
  /\ reply.store_ok
  /\ restarts > 0
  /\ Cardinality(LeadRecords(TenantA, reply.session_id)) = 1

\* C6: waiting_for_name and a lead_collection_state never hold together, and
\* a lead_collection_state exists only for a session whose name is captured.
C6_NameGatePrecedesLeadFlow ==
  \A s \in Sessions :
    LeadStateActive(TenantA, s) => ~WaitingForName(TenantA, s) /\ NameCaptured(TenantA, s)

\* a pricing question has armed the lead collection of a named session
C6_Witness ==
  /\ reply.response.kind = "phone_request"
  /\ LeadStateActive(TenantA, reply.session_id)

\* C7: in the name gate and in each lead-collection step, an input the
\* validator rejects leaves the session state and the lead store unchanged
\* and the reply carries the validator's reason.
C7_RejectedInputKeepsState ==
  [][\A s \in Sessions :
       LET q == reply'.question
           verdict == IF WaitingForName(TenantA, s) THEN NameVerdict[q]
                      ELSE IF LeadStepAt(TenantA, s, "phone") THEN PhoneVerdict[q]
                      ELSE EmailVerdict[q]
       IN (/\ ChatStep(TenantA)
           /\ reply'.session_id = s
           /\ WaitingForName(TenantA, s) \/ LeadStepAt(TenantA, s, "phone")
              \/ LeadStepAt(TenantA, s, "email")
           /\ ~verdict.ok
           /\ reply'.response.kind # "location")
            => /\ SessionState(TenantA, s)' = SessionState(TenantA, s)
               /\ leads' = leads
               /\ reply'.response.reason = verdict.reason
               /\ reply'.response.reason # ""]_vars

\* a phone or an email was rejected in a lead-collection step
C7_Witness ==
  /\ reply.response.kind = "lead_rejected"
  /\ reply.response.reason # ""
  /\ LeadStateActive(TenantA, reply.session_id)

(***************************************************************************)
(* Tenant isolation (TenantSpec)                                           *)
(***************************************************************************)
\* the lead documents of the session in the tenant's leads collection
LeadDocs(t, s) == {leads[t.database_uri][i] : i \in LeadRecords(t, s)}

\* C8: a chat request of one tenant leaves the session state and the lead
\* records of every tenant with another resource_id as they were.
C8_TenantIsolation ==
  [][\A t \in Tenants, u \in Tenants :
       (t.resource_id # u.resource_id /\ ChatStep(t))
         => \A s \in Sessions :
              /\ SessionState(u, s)' = SessionState(u, s)
              /\ LeadDocs(u, s)' = LeadDocs(u, s)]_vars

(***************************************************************************)
(* The notification protocol of the scheduler (SchedulerSpec)              *)
(***************************************************************************)
\* C9: the admin backend receives success=true for a job only after the
\* bot has acknowledged the restart of that job; when the restart fails no
\* success notification of the job reaches it.
C9_SuccessOnlyAfterRestartAck ==
  \A i \in 1..Len(admin_log) :
    (admin_log[i].success /\ admin_log[i].delivered)
      => [job |-> admin_log[i].job, acked |-> TRUE] \in restart_log

\* C10: when the updater subprocess of a job exits with a non-zero code or
\* cannot be run, the supervisor asks for no restart, no success=true is
\* posted for the job, and by the end of the job the supervisor has posted
\* success=false for it.
C10_FailedUpdaterNoRestart ==
  \A k \in 1..Len(returncode) :
    returncode[k] # 0
      => /\ \A r \in restart_log : r.job # k
         /\ \A i \in 1..Len(admin_log) : admin_log[i].job = k => ~admin_log[i].success
         /\ (k < tick \/ sched_pc = "idle")
              => \E i \in 1..Len(admin_log) :
                   /\ admin_log[i].job = k
                   /\ admin_log[i].sender = "scheduler"
                   /\ ~admin_log[i].success

\* a job whose updater exited with code 1 has ended and the backend has
\* received the supervisor's success=false
C10_Witness ==
  /\ sched_pc = "idle"
  /\ tick > 0
  /\ Len(returncode) = tick
  /\ returncode[tick] = 1
  /\ \E i \in 1..Len(admin_log) :
       /\ admin_log[i].job = tick
       /\ admin_log[i].sender = "scheduler"
       /\ ~admin_log[i].success
       /\ admin_log[i].delivered

(***************************************************************************)
(* The bot under the auto-restart wrapper (WrapperSpec)                    *)
(***************************************************************************)
\* the wrapper has just left the exit of the bot behind, of its own accord
WrapperActed ==
  /\ bot.pc = "exited"
  /\ bot'.pc # "exited"
  /\ bot'.cause # "interrupted"

\* C11: after POST /reload_vectors the bot process exits and the wrapper
\* starts it again, so that a later query finds a running process.
C11_ReloadVectorsRestartsBot ==
  [][(WrapperActed /\ bot.cause = "reload_vectors") => bot'.pc = "running"]_vars

RegistryCall(op) == served' # served /\ served'.op = op

\* this call and the call before it were given the same path and the same uri
SameRequest ==
  /\ served'.vector_store_path = served.vector_store_path
  /\ served'.database_uri = served.database_uri

Reloads == {"reloaded", "reload_failed"}

\* C13: get, invalidate and mark-data-updated, given the same
\* vector_store_path and record-store uri, address the same entry: the flag a
\* mark has set is the flag the next get of a cached engine reads, and an
\* invalidate destroys the engine that the get before it returned.
C13_SameRequestSameEntry ==
  [][/\ (/\ served.op = "mark" /\ served.key \in needs_reload
         /\ RegistryCall("get") /\ SameRequest
         /\ served'.key \in DOMAIN instances) => served'.result \in Reloads
     /\ (served.op = "get" /\ RegistryCall("invalidate") /\ SameRequest)
          => (served'.result = "destroyed" /\ served.key \notin DOMAIN instances')]_vars

\* C14: after one or more mark-data-updated calls the next get reloads and
\* clears the flag, and the gets after it, without a new mark, do not reload.
C14_OneReloadPerMark ==
  [][/\ (RegistryCall("get") /\ served'.key \in needs_reload)
          => (served'.result = "reloaded" /\ served'.key \notin needs_reload')
     /\ (served.op = "get" /\ RegistryCall("get") /\ served'.key = served.key)
          => served'.result \notin Reloads]_vars

\* C15 as stated: after every invalidate the dirty flag of its cache key is set.
C15_InvalidateSetsFlag ==
  [][RegistryCall("invalidate") => served'.key \in needs_reload']_vars

\* C15: an invalidate that finds an engine under its cache key removes the
\* engine and the dirty flag of the key, so that the next get creates a
\* fresh engine; an invalidate that finds none sets the dirty flag.
C15_InvalidateDestroysOrFlags ==
  [][RegistryCall("invalidate") =>
       IF served'.key \in DOMAIN instances
         THEN /\ served'.result = "destroyed"
              /\ instances' = Without(instances, served'.key)
              /\ needs_reload' = needs_reload \ {served'.key}
         ELSE /\ served'.result = "flagged"
              /\ instances' = instances
              /\ needs_reload' = needs_reload \cup {served'.key}]_vars

\* an invalidate has destroyed an engine whose dirty flag was set, and one
\* has found nothing to destroy
C15_Witness ==
  /\ served.op = "invalidate"
  /\ \/ /\ served.result = "destroyed"
        /\ served.key \notin DOMAIN instances
        /\ served.key \notin needs_reload
     \/ /\ served.result = "flagged"
        /\ served.key \in needs_reload

\* the engines that SemanticIntelligentRAG(...) can return for a cache key
FreshEngines(key) ==
  {NewEngine([resource_id |-> "acme", vector_store_path |-> key[1], database_uri |-> key[2]], up) :
     up \in BOOLEAN}

\* the same engine object, whatever collection it has open
SameEngine(after, before) == after = [before EXCEPT !.collection = after.collection]

\* C16: a destroy (invalidate, or the destroy phase of a forced get) is over
\* before any other call on the registry runs, and no get returns an engine
\* that is being or has been destroyed: the lock is free between calls, a
\* destroyed engine has left the cache, a get returns either the engine
\* that was cached before it or a brand-new one, and a forced get always a
\* brand-new one.
C16_GetNeverReturnsDestroyedEngine ==
  [][/\ lock = "free" /\ lock' = "free"
     /\ (RegistryCall("invalidate") /\ served'.result = "destroyed")
          => served'.key \notin DOMAIN instances'
     /\ (RegistryCall("get") \/ RegistryCall("force_get"))
          => IF served'.result \in {"created", "recreated"}
               THEN instances'[served'.key] \in FreshEngines(served'.key)
               ELSE /\ served'.key \in DOMAIN instances
                    /\ SameEngine(instances'[served'.key], instances[served'.key])
     /\ RegistryCall("force_get") => served'.result \in {"created", "recreated"}]_vars

\* a forced get has destroyed the engine that a get built after the
\* invalidate of the same /refresh-cache, and has returned a new one
C16_Witness ==
  /\ served.op = "force_get"
  /\ served.result = "recreated"
  /\ served.key \in DOMAIN instances
  /\ lock = "free"

\* C17 as stated: the reload of a get runs while the get holds the lock.
C17_ReloadUnderLock ==
  [][(RegistryCall("get") /\ served'.result \in Reloads) => served'.under_lock]_vars

\* C17: a get that finds a cached engine with its dirty flag set reloads it
\* in the lock-free fast path, within the same uninterrupted step in which
\* it returns: the lock is not taken, the cache keeps its engines (the
\* reloaded one with another collection handle), and the flag is cleared
\* when the reload returned and kept when it raised.
C17_ReloadWithinGetWithoutLock ==
  [][(/\ RegistryCall("get")
      /\ served'.key \in DOMAIN instances
      /\ served'.key \in needs_reload)
       => /\ served'.result \in Reloads
          /\ ~served'.under_lock
          /\ lock' = lock
          /\ DOMAIN instances' = DOMAIN instances
          /\ \A k \in DOMAIN instances : SameEngine(instances'[k], instances[k])
          /\ needs_reload' = IF served'.result = "reloaded"
                                THEN needs_reload \ {served'.key} ELSE needs_reload]_vars

\* a get has reloaded a cached engine and cleared its flag
C17_Witness ==
  /\ served.op = "get"
  /\ served.result = "reloaded"
  /\ ~served.under_lock
  /\ served.key \in DOMAIN instances
  /\ served.key \notin needs_reload

(***************************************************************************)
(* The update run (CrawlSpec) and the chunker (ChunkerSpec)                *)
(***************************************************************************)
\* this step is a call of parse
ParseStep == parsed' # parsed

\* C18: when the cleaned text of a URL is the same in two consecutive update
\* runs, the second run adds no document for that URL to the collection.
C18_UnchangedPageAddsNothing ==
  [][(ParseStep /\ crawl.before[parsed'.url] = site[parsed'.url].cleaned)
       => added'[parsed'.url] = added[parsed'.url]]_vars

\* C19: when the hash of a page equals the hash of its tracking record, the
\* run leaves content_hash and last_modified of the record as they are, may
\* set last_checked to the time of the parse, touches no other record,
\* hands nothing of the page to extraction, and requests the outbound links
\* of the page.
C19_HashMatchTouchesLastCheckedOnly ==
  [][(ParseStep /\ url_tracking[parsed'.url].content_hash = Sha256(site[parsed'.url].cleaned))
       => /\ url_tracking'[parsed'.url].content_hash = url_tracking[parsed'.url].content_hash
          /\ url_tracking'[parsed'.url].last_modified = url_tracking[parsed'.url].last_modified
          /\ url_tracking'[parsed'.url].last_checked
                \in {url_tracking[parsed'.url].last_checked, crawl.clock}
          /\ \A u \in Urls \ {parsed'.url} : url_tracking'[u] = url_tracking[u]
          /\ ~parsed'.forwarded
          /\ added' = added
          /\ crawl'.processed = crawl.processed
          /\ parsed'.followed = Links[parsed'.url] \ crawl.processed
          /\ (parsed'.followed \ crawl.requested) \subseteq crawl'.frontier]_vars

\* an unchanged page has been checked after it was last modified, and its
\* links have been requested
C19_Witness ==
  /\ parsed.branch = "unchanged"
  /\ ~parsed.forwarded
  /\ parsed.followed # {}
  /\ url_tracking[parsed.url].last_checked = parsed.at
  /\ url_tracking[parsed.url].last_modified < parsed.at

\* C20: every chunk the chunker emits is at least min_chunk_size and at most
\* max_chunk_size characters long.
C20_ChunkSizeWithinBounds ==
  item.status = "chunked" =>
    \A i \in DOMAIN item.chunks :
       /\ Length(item.chunks[i]) >= min_chunk_size
       /\ Length(item.chunks[i]) <= max_chunk_size

\* the words of the sentence stand next to each other in the chunk
Appears(sentence, chunk) ==
  \E i \in 1..(Len(chunk) - Len(sentence) + 1) :
     SubSeq(chunk, i, i + Len(sentence) - 1) = sentence

\* C21: when the pipeline produces chunks from a text, every sentence of the
\* text appears in at least one of the chunks.
C21_EverySentenceInSomeChunk ==
  item.status = "chunked" =>
    \A k \in DOMAIN item.sentences :
       \E i \in DOMAIN item.chunks : Appears(item.sentences[k], item.chunks[i])

\* C22: for the same text ChunkingPipeline.process_item and chunk_text give
\* the same chunks, and the pipeline drops the item exactly when chunk_text
\* returns no chunk.
C22_PipelineMatchesChunkText ==
  (item.status \in {"chunked", "dropped"} /\ manual.status # "none") =>
    /\ item.chunks = manual.chunks
    /\ item.status = "dropped" <=> manual.chunks = << >>

\* both chunkers have cut a text into two chunks or more
C22_Witness ==
  /\ item.status = "chunked"
  /\ manual.status = "stored"
  /\ Len(item.chunks) >= 2
  /\ item.chunks = manual.chunks

\* the pipeline has dropped a text of more than min_chunk_size characters
\* and chunk_text has returned no chunk for it
C22_DroppedWitness ==
  /\ item.status = "dropped"
  /\ manual.status = "error"
  /\ Length(Flatten(item.sentences)) >= min_chunk_size

\* C23: the documents the reranker returns are among the candidates the
\* passes of chat gathered, each of them once, and at most RerankTopN.
C23_RerankedWithinCandidates ==
  retrieval.outcome = "answered" =>
    /\ Range(retrieval.reranked) \subseteq
         Range(retrieval.docs1) \cup Range(retrieval.pass2.docs)
           \cup Range(retrieval.pass3.docs)
    /\ \A i, j \in DOMAIN retrieval.reranked :
         retrieval.reranked[i] = retrieval.reranked[j] => i = j
    /\ Len(retrieval.reranked) <= RerankTopN

\* more candidates than RerankTopN, one of them returned by two passes, and
\* the reranker has put them in another order and cut them
C23_Witness ==
  /\ retrieval.outcome = "answered"
  /\ Len(retrieval.all_docs) > RerankTopN
  /\ Len(retrieval.reranked) = RerankTopN
  /\ retrieval.reranked # Prefix(retrieval.all_docs, RerankTopN)
  /\ Range(retrieval.docs1) \cap Range(retrieval.pass2.docs) # {}

\* the steps whose exception no handler inside chat catches
Uncaught == {"embedding", "reranker", "session_entry"}

C24_CaughtWitness ==
  /\ reply.raised = {"record_store"}
  /\ reply.response.kind = "inline_phone_saved"

\* the chunks of a URL among the results
ChunksOf(url) ==
  {i \in DOMAIN located.results :
     located.results[i].url # NoText /\ Strip(located.results[i].url) = url}

\* 2 for each positive term in a chunk of the URL, less 5 for each negative
\* path in the URL of a chunk
ScoreOf(url) ==
  2 * Cardinality({h \in ChunksOf(url) \X PositiveTerms :
                     Contains(ToLower(located.results[h[1]].text) \o <<" ">>
                                \o ToLower(located.results[h[1]].page_title), h[2])})
  - 5 * Cardinality({h \in ChunksOf(url) \X NegativePaths :
                       Contains(ToLower(located.results[h[1]].url), h[2])})

C26_InlineEmailCollectsLead ==
  [][\A s \in Sessions :
       (/\ InlineStep(TenantA, s)
        /\ ContactInfo[reply'.question].phones = {}
        /\ ContactInfo[reply'.question].emails # {}
        /\ \A e \in ContactInfo[reply'.question].emails : EmailVerdict[e].ok)
         => /\ LeadCollected(TenantA, s)'
            /\ reply'.response.kind = "inline_email_saved"]_vars

\* C26 for the sessions that have a conversation context already
C26_InlineEmailWithContext ==
  [][\A s \in Sessions :
       (/\ InlineStep(TenantA, s)
        /\ ContextsOf(TenantA, s) # {}
        /\ ContactInfo[reply'.question].phones = {}
        /\ ContactInfo[reply'.question].emails # {}
        /\ \A e \in ContactInfo[reply'.question].emails : EmailVerdict[e].ok)
         => /\ LeadCollected(TenantA, s)'
            /\ reply'.response.kind = "inline_email_saved"]_vars

\* C27: a forced get leaves exactly one engine cached for its key, built
\* under the lock after the engine cached before it was destroyed; every
\* engine cached for the key before, also one that a get built between the
\* invalidate and the forced get of a /refresh-cache, has had its
\* connections closed and has left the cache.
C27_ForcedGetLeavesOneFreshEngine ==
  [][RegistryCall("force_get") =>
       /\ DOMAIN instances' = DOMAIN instances \cup {served'.key}
       /\ instances'[served'.key] \in FreshEngines(served'.key)
       /\ served'.under_lock
       /\ served'.closed = DOMAIN instances \cap {served'.key}
       /\ \A k \in DOMAIN instances' \ {served'.key} : instances'[k] = instances[k]]_vars

\* a forced get has closed the engine that was cached for its key and has
\* put a new one in its place
C27_Witness ==
  /\ served.op = "force_get"
  /\ served.result = "recreated"
  /\ served.closed = {served.key}
  /\ served.key \in DOMAIN instances
  /\ instances[served.key] \in FreshEngines(served.key)

\* C28: the in-place reload of a get replaces only the collection handle of
\* the cached engine: its embedding model, its cross-encoder and its session
\* state are what they were before the reload.
C28_ReloadReplacesOnlyCollection ==
  [][(RegistryCall("get") /\ served'.result \in Reloads) =>
       /\ served'.key \in DOMAIN instances
       /\ served'.key \in DOMAIN instances'
       /\ SameEngine(instances'[served'.key], instances[served'.key])
       /\ instances'[served'.key].collection =
            IF served'.result = "reloaded" THEN "reloaded" ELSE "none"]_vars

\* an engine that holds session state has been reloaded in place
C28_Witness ==
  /\ served.op = "get"
  /\ served.result = "reloaded"
  /\ served.key \in DOMAIN instances
  /\ instances[served.key].collection = "reloaded"
  /\ instances[served.key].name_collection_states # EmptyMap

\* C29: after a termination signal the scheduler supervisor starts no new
\* updater job, lets a job in progress finish, and exits with code 0 after
\* removing its PID file and printing exactly one 'stopped' line, having
\* printed exactly one 'started' line at startup.
C29_GracefulShutdown ==
  /\ supervisor.shutdown_requested => tick = supervisor.jobs_at_signal
  /\ supervisor.pc = "stopped" =>
       /\ sched_pc = "idle"
       /\ Len(returncode) = tick
       /\ supervisor.exit_code = 0
       /\ ~supervisor.pid_file
       /\ supervisor.stdout = <<"started", "stopped">>

\* the part of C29 that the code keeps: the supervisor stops between two
\* jobs, with code 0, without PID file, after one 'started' and one 'stopped'
C29_StopsBetweenJobs ==
  supervisor.pc = "stopped" =>
    /\ sched_pc = "idle"
    /\ Len(returncode) = tick
    /\ supervisor.exit_code = 0
    /\ ~supervisor.pid_file
    /\ supervisor.stdout = <<"started", "stopped">>

\* a supervisor signalled during a job has let it finish and has stopped
C29_StoppedAfterJob ==
  /\ supervisor.pc = "stopped"
  /\ tick > 0
  /\ supervisor.jobs_at_signal = tick

\* analyze_question_semantically, lines 937-938: the capitalised tokens of
\* more than two characters
Entities(question) ==
  SelectSeq(WordList(question), LAMBDA w : Len(w) > 2 /\ w[1] \in Upper)

\* C30: for a question with capitalised tokens of more than two characters
\* Pass 3 runs: up to five of them, joined by spaces, are the query text for
\* the 30 nearest passages, and what the pass returns is among the candidates.
C30_EntityPassRuns ==
  (retrieval.outcome # "none" /\ Entities(retrieval.question) # << >>) =>
    /\ retrieval.pass3.ran
    /\ retrieval.pass3.query = JoinSpace(Prefix(Entities(retrieval.question), MaxEntities))
    /\ retrieval.pass3.n_results = EntityResults
    /\ Range(retrieval.pass3.docs) \subseteq Range(retrieval.all_docs)

\* C32: after a retrieval answer the stored sources of the session hold at
\* most five snippets, and every stored snippet is at most 240 characters long.
C32_SnippetsWithinLimits ==
  sources.answered =>
    /\ Len(sources.stored) <= SnippetLimit
    /\ \A i \in 1..Len(sources.stored) : Len(sources.stored[i]) <= SnippetMaxLength

\* the part of C32 that the code keeps: at most five snippets, each the
\* stripped document or its first 240 characters followed by three dots
C32_SnippetsWithinEllipsis ==
  sources.answered =>
    /\ Len(sources.stored) <= SnippetLimit
    /\ \A i \in 1..Len(sources.stored) : Len(sources.stored[i]) <= SnippetMaxLength + 3

\* more than five documents, a long one among the first five, have been stored
C32_LongStored ==
  /\ sources.answered
  /\ Len(sources.documents) > SnippetLimit
  /\ Len(sources.stored) = SnippetLimit
  /\ \E i \in 1..Len(sources.stored) : Len(sources.stored[i]) = SnippetMaxLength + 3

\* C34: every engine that a get of the registry returns has an open vector
\* collection (chroma_client and collection are not None), also when the
\* dirty-flag reload attempted inside that get has failed.
C34_ReturnedEngineHasCollection ==
  [][(RegistryCall("get") \/ RegistryCall("force_get")) =>
       /\ served'.key \in DOMAIN instances'
       /\ instances'[served'.key].collection # "none"]_vars

\* what the code keeps of C34: an engine without collection is one whose
\* reload failed and whose dirty flag is still set, so the next get retries
C34_ClosedEngineStaysFlagged ==
  \A k \in DOMAIN instances : instances[k].collection = "none" => k \in needs_reload

\* a get has returned an engine whose reload failed
C34_FailedReloadReturned ==
  /\ served.op = "get"
  /\ served.result = "reload_failed"
  /\ served.key \in DOMAIN instances
  /\ instances[served.key].collection = "none"

\* C35: a chat message answered by the location fast-path leaves the name
\* collection state, the lead collection state, the conversation context
\* and the lead store of the session as they were and only clears the
\* stored sources of the session, also when the session is waiting for a
\* name or is in a lead-collection step.
C35_FastPathLeavesSessionAlone ==
  [][\A s \in Sessions :
       (ChatStep(TenantA) /\ reply'.session_id = s /\ reply'.response.kind = "location")
         => /\ SessionState(TenantA, s)' = SessionState(TenantA, s)
            /\ leads' = leads
            /\ \A e \in EngineOf(TenantA)' : s \notin DOMAIN e.last_sources_by_session]_vars

\* the fast-path has answered a session that is in a lead-collection step
C35_Witness ==
  /\ reply.response.kind = "location"
  /\ reply.session_id = "s1"
  /\ LeadStateActive(TenantA, "s1")

\* the fast-path has answered a session that is waiting for a name
C35_WaitingWitness ==
  /\ reply.response.kind = "location"
  /\ reply.session_id = "s1"
  /\ WaitingForName(TenantA, "s1")

\* C33: whenever lead_collected is true for a session, the record store
\* having been available without errors throughout the session, the lead
\* store holds a record of that session_id with status complete that carries
\* the phone and the email collected from the session.
C33_CollectedLeadIsStored ==
  \A s \in Sessions :
    LeadCollected(TenantA, s) =>
      \E d \in LeadDocs(TenantA, s) :
        /\ d.status = "complete"
        /\ \A c \in ContextsOf(TenantA, s) :
             /\ c.phone # NoText => d.phone = c.phone
             /\ c.email # NoText => d.email = c.email

\* what the code keeps of C33: a session that ends the step-by-step
\* collection has a complete record
C33_StepByStepLeadIsStored ==
  [][\A s \in Sessions :
       (ChatStep(TenantA) /\ reply'.session_id = s /\ reply'.response.kind = "thank_you_saved")
         => \E d \in LeadDocs(TenantA, s)' : d.status = "complete"]_vars

\* the flag is set for a session of which the lead store holds no record
C33_CollectedWithoutRecord ==
  /\ LeadCollected(TenantA, "s1")
  /\ LeadDocs(TenantA, "s1") = {}

\* the updater subprocesses that have been launched and have not exited
RunningUpdaters == tick - Len(returncode)

\* the job has run to the end of _run_updater_job: a failed updater has
\* been reported, a successful one has been followed by the restart request
\* and, when that was acknowledged, by the success notification
JobSettled(k) ==
  /\ k <= Len(returncode)
  /\ returncode[k] # 0 =>
       \E i \in 1..Len(admin_log) :
         admin_log[i].job = k /\ admin_log[i].sender = "scheduler" /\ ~admin_log[i].success
  /\ returncode[k] = 0 =>
       \E r \in restart_log :
         /\ r.job = k
         /\ r.acked => \E i \in 1..Len(admin_log) :
                         admin_log[i].job = k /\ admin_log[i].sender = "scheduler"
                           /\ admin_log[i].success

\* C36: a scheduler supervisor never has two updater subprocesses running
\* at a time: when the updater of a job is spawned, the job given by
\* --run-immediately included, the updaters of the jobs before it have
\* exited and their restart and notification calls are over.
C36_OneUpdaterAtATime ==
  [][/\ RunningUpdaters' <= 1
     /\ tick' # tick => /\ RunningUpdaters = 0
                        /\ \A k \in 1..tick : JobSettled(k)]_vars

\* a second job has been launched, after a first one that has run to its end
C36_Witness ==
  /\ tick = 2
  /\ sched_pc = "updater"
  /\ Len(returncode) = 1
  /\ returncode[1] = 0
  /\ JobSettled(1)

\* the documents of a URL in the collection
DocumentsOf(collection, url) == {d \in collection : d.url = url}

\* C38: the update runs only add documents to the vector collection: every
\* document of the collection is still in it after every step, so the count
\* never decreases, and when a page is found modified and its chunks are
\* stored, the documents of its earlier content stay next to the new ones.
C38_PipelinesOnlyAdd ==
  [][/\ chroma \subseteq chroma'
     /\ Cardinality(chroma') >= Cardinality(chroma)
     /\ (ParseStep /\ parsed'.branch = "modified" /\ parsed'.documents > 0)
          => /\ DocumentsOf(chroma, parsed'.url) \subseteq DocumentsOf(chroma', parsed'.url)
             /\ \E new \in DocumentsOf(chroma', parsed'.url) \ chroma :
                   new.text = site[parsed'.url].cleaned]_vars

\* a modified page has been stored, and the collection holds the documents
\* of its earlier text as well
C38_Witness ==
  /\ parsed.branch = "modified"
  /\ parsed.documents > 0
  /\ \E old \in DocumentsOf(chroma, parsed.url), new \in DocumentsOf(chroma, parsed.url) :
        /\ old.ts < new.ts
        /\ new.ts = parsed.at
        /\ old.text # new.text
        /\ new.text = site[parsed.url].cleaned

\* C37: when the updater finds a page new or modified, the tracking record
\* holds the hash of the page's content once the page has been handled,
\* whether or not its chunks could be stored, and a page whose content is
\* the same as in the previous run is not found new or modified again.
C37_HashRecordedBeforeChunks ==
  [][ParseStep =>
       /\ parsed'.branch \in {"new", "modified"}
            => url_tracking'[parsed'.url].content_hash = Sha256(site[parsed'.url].cleaned)
       /\ crawl.before[parsed'.url] = site[parsed'.url].cleaned
            => parsed'.branch \notin {"new", "modified"}]_vars

\* C37, the storage failure alone: a batch that could not be stored leaves
\* the tracking record as the change detection left it, with the new hash
\* when the tracking update went through and with the former record when
\* it did not.
C37_StorageFailureKeepsRecord ==
  [][(ParseStep /\ parsed'.store_failed)
       => /\ parsed'.branch \in {"new", "modified"}
          /\ chroma' = chroma
          /\ \/ url_tracking'[parsed'.url].content_hash = Sha256(site[parsed'.url].cleaned)
             \/ url_tracking'[parsed'.url] = url_tracking[parsed'.url]]_vars

\* the chunks of a new page were stored while its hash was not recorded
C37_StoredWithoutHash ==
  /\ parsed.branch = "new"
  /\ parsed.documents > 0
  /\ url_tracking[parsed.url] = NoRecord
  /\ DocumentsOf(chroma, parsed.url) # {}


\* the depths of the requests of the last link discovery
DiscoveryDepths == {spider.discovery.requests[i].depth : i \in DOMAIN spider.discovery.requests}

\* C31: in a crawl with any max_depth >= 0 and max_links_per_page >= 0, no
\* link discovery yields a request of a depth above max_depth, and the link
\* requests yielded from one page number at most max_links_per_page.
C31_LinkLimitsRespected ==
  spider.pc # "idle" =>
    /\ \A depth \in DiscoveryDepths : depth <= spider.max_depth
    /\ \A u \in SpiderUrls : spider.issued[u] <= spider.max_links_per_page

\* C31 for the positive settings: with max_depth >= 1 no request that is
\* yielded or queued has a depth above max_depth, and with
\* max_links_per_page >= 1 one link discovery yields at most that many.
C31_PositiveLimitsRespected ==
  /\ spider.max_depth >= 1 =>
       /\ \A depth \in DiscoveryDepths : depth <= spider.max_depth
       /\ \A request \in spider.queue : request.depth <= spider.max_depth
  /\ spider.max_links_per_page >= 1 =>
       Len(spider.discovery.requests) <= spider.max_links_per_page

\* with both limits set to 0 a page at depth 1 has yielded a link request
C31_ZeroLimitsFollowed ==
  /\ spider.pc = "crawling"
  /\ spider.max_depth = 0
  /\ spider.max_links_per_page = 0
  /\ spider.discovery.depth = 1
  /\ Len(spider.discovery.requests) = 1

\* C39: when the spider closes no URL is left in the set of the URLs being
\* processed, and at no time is a URL in that set and in the set of the
\* fully processed URLs.
C39_ProcessingSetDrained ==
  /\ spider.pc = "closed" => spider.currently_processing_urls = {}
  /\ spider.currently_processing_urls \cap spider.fully_processed_urls = {}

\* C39, the two sets alone: no URL is in both
C39_SetsDisjoint ==
  spider.currently_processing_urls \cap spider.fully_processed_urls = {}

\* the spider has closed with a URL still marked as being processed
C39_LeftProcessing ==
  /\ spider.pc = "closed"
  /\ spider.currently_processing_urls # {}
  /\ spider.fully_processed_urls # {}

\* with max_links_per_page >= 1 the plain and the rendered response of one
\* page together have yielded more link requests than that
C31_RenderedPassDoubles ==
  /\ spider.max_links_per_page >= 1
  /\ \E u \in SpiderUrls : spider.issued[u] > spider.max_links_per_page

====
